---- MODULE Spec2Model ----
(***************************************************************************)
(* s3up: the resumable multipart transfer engine.                          *)
(*                                                                         *)
(* The model follows src/lib/multipart.ts (uploadMultipart,                *)
(* uploadPartsInParallel, setupAbortHandler) and src/lib/state.ts          *)
(* (loadState, saveState, deleteState, addCompletedPart, hasFileChanged).   *)
(*                                                                         *)
(* One process runs uploadMultipart on one file at a time; the file, the   *)
(* sidecar on disk and the remote store outlive the process, so a later    *)
(* invocation finds what an earlier one left.                              *)
(*                                                                         *)
(* Scheduling.  JavaScript runs each continuation to its next await        *)
(* without interleaving, and the microtask queue is drained after every    *)
(* I/O completion.  So one action is one I/O completion (a file read, an   *)
(* HTTP response, a sidecar write, a signal, a timer) together with all    *)
(* the synchronous code and promise reactions it triggers: a part task     *)
(* settling and the scheduler loop waking from Promise.race / Promise.all  *)
(* are one step.                                                           *)
(*                                                                         *)
(* Sidecar writes.  saveState is `await Bun.write(path, JSON)`: the JSON   *)
(* is built when the call is made, the file is rewritten in place later.   *)
(* Nothing in the code orders two writes that are in flight together or    *)
(* makes a rewrite atomic, so in-flight writes land in any order and a     *)
(* process that dies with a write in flight may leave a torn file.         *)
(*                                                                         *)
(* Abstractions.  Sizes are in abstract units.  bucket, key, provider,     *)
(* endpoint and createdAt never change within a transfer and are left      *)
(* out of UploadState.  An etag is the pair (upload id, part number) under *)
(* which the store returned it, so that the origin of an etag is visible.  *)
(***************************************************************************)
EXTENDS Integers, Sequences, FiniteSets, TLC

\* ---------------------------------------------------------------- bounds

MaxFileSize == 3
MaxMtime == 1
MaxConnections == 2
MaxRuns == 2

\* The chunk sizes an invocation may choose (the speed presets), in units.
ChunkSizes == {1, 2}

FileSizes == 1..MaxFileSize
Mtimes == 0..MaxMtime
PartNumbers == 1..MaxFileSize

\* ----------------------------------------------------------- state store

\* Math.ceil(fileSize / chunkSize)
CeilDiv(a, b) == (a + b - 1) \div b

\* The value loadState returns as null, and the in-memory `state = null`.
NullState ==
    [version |-> 0, uploadId |-> 0, fileSize |-> 0, fileModified |-> 0,
     chunkSize |-> 0, totalParts |-> 0, completedParts |-> << >>]

createInitialState(uploadId, fileSize, fileModified, chunkSize) ==
    [version |-> 1, uploadId |-> uploadId, fileSize |-> fileSize,
     fileModified |-> fileModified, chunkSize |-> chunkSize,
     totalParts |-> CeilDiv(fileSize, chunkSize), completedParts |-> << >>]

\* The sidecar on disk: no file, an empty file (deleteState clears it before
\* unlinking), a torn file (a rewrite cut short), or a whole JSON document.
AbsentFile == [kind |-> "absent", st |-> NullState]
EmptyFile == [kind |-> "empty", st |-> NullState]
TornFile == [kind |-> "torn", st |-> NullState]
StateFile(st) == [kind |-> "state", st |-> st]

\* loadState: null when the file is missing, when JSON.parse throws (empty or
\* torn content) and when version is not 1.
loadState(d) ==
    IF d.kind = "state" /\ d.st.version = 1 THEN d.st ELSE NullState

\* Mutant: the file counts as changed only when size and mtime both differ.
hasFileChangedBothDiffer(f, st) ==
    f.size # st.fileSize /\ f.mtime # st.fileModified

hasFileChanged(f, st) ==
    f.size # st.fileSize \/ f.mtime # st.fileModified

Etag(uid, pn) == [uid |-> uid, pn |-> pn]
Part(uid, pn) == [partNumber |-> pn, etag |-> Etag(uid, pn)]

Numbers(parts) == {parts[i].partNumber : i \in 1..Len(parts)}

\* Array.prototype.sort((a, b) => a.partNumber - b.partNumber): stable.
RECURSIVE InsertSorted(_, _)
InsertSorted(x, s) ==
    IF s = << >> THEN << x >>
    ELSE IF Head(s).partNumber >= x.partNumber THEN << x >> \o s
    ELSE << Head(s) >> \o InsertSorted(x, Tail(s))

RECURSIVE SortParts(_)
SortParts(s) ==
    IF Len(s) <= 1 THEN s ELSE InsertSorted(Head(s), SortParts(Tail(s)))

\* Mutant: the part is always pushed.
UpsertAlwaysPush(cp, part) == SortParts(Append(cp, part))

\* addCompletedPart, the in-memory half: replace the entry with the same part
\* number or push, then sort.
Upsert(cp, part) ==
    LET hit == {i \in 1..Len(cp) : cp[i].partNumber = part.partNumber}
        i0 == CHOOSE i \in hit : \A j \in hit : i <= j
    IN SortParts(IF hit # {} THEN [cp EXCEPT ![i0] = part] ELSE Append(cp, part))

\* ------------------------------------------------------------------ state

VARIABLES
    file,           \* the local file: [size, mtime]
    disk,           \* the sidecar .<name>.s3up
    remote,         \* remote[uid]: [open, parts] of the multipart upload uid
    run,            \* invocations started so far
    pc,             \* where uploadMultipart is; "none": no process
    opts,           \* MultipartOptions of this invocation
    state,          \* uploadMultipart's `state`
    isAborting,     \* module flag; the AbortController is aborted with it
    handler,        \* the SIGINT handler is registered
    pendingParts,   \* uploadPartsInParallel's pendingParts
    nextIdx,        \* position of its for-loop in pendingParts
    allParts,       \* its allParts
    progress,       \* the ProgressState: parts and bytes counted, totals
    task,           \* task[p]: where the upload promise of part p is
    wr,             \* wr[p]: the JSON a Bun.write in flight for part p carries
    completed,      \* the store answered complete-multipart with success
    path,           \* history: what this invocation found (see StartRun)
    loaded,         \* history: what loadState returned to this invocation
    startCompleted, \* history: part numbers completed on entry to the scheduler
    reqs,           \* history: reqs[p]: upload-part requests sent for p this run
    sentRange,      \* history: sentRange[p]: bytes [start, end) of the file the
                    \*   last upload-part request for p this run carried
    firstFail,      \* history: error of the first part upload that rejected
    completeCalls,  \* history: every complete-multipart request sent, with
                    \*   totalParts and isAborting as they were then
    outcome,        \* what uploadMultipart returned
    prev,           \* history: how the previous process ended
    late            \* history: parts whose 2xx answer came after the abort

\* The upload and prune commands (src/commands), which run the transfers.
VARIABLES
    cmd,            \* the command line and what it finds: see Commands
    cpc,            \* where the command is; "init": not started
    cur,            \* index in cmd.files of the file being handled
    small,          \* small[i]: where the upload of small file i is
    results,        \* upload's `results`
    prompts,        \* history: prompts shown so far
    needPrompt,     \* history: a point was reached where interactive mode prompts
    exit,           \* [code, by]: process.exit(code) and the exit that called it
    listeners,      \* SIGINT listeners registered with process.on so far
    sigints         \* history: SIGINT signals received so far

cliVars == <<cmd, cpc, cur, small, results, prompts, needPrompt, exit,
             listeners, sigints>>

\* The state store (src/lib/state.ts) taken by itself.
VARIABLES
    mem,            \* the UploadState object the caller holds
    sidecar,        \* the sidecar: [how, text], text the JSON tokens in it
    ret,            \* what loadState returned, when it was the last call made
    lastEtag,       \* history: lastEtag[p]: etag of the last add for part p
    adds            \* history: addCompletedPart calls so far

storeVars == <<mem, sidecar, ret, lastEtag, adds>>

\* The retention filter of the prune command taken by itself.
VARIABLES
    objects,        \* the listing: sequence of [key, lastModified]
    options,        \* PruneFilterOptions: [olderThan, keepLast, minAge]
    toDelete,       \* what filterObjectsForPrune returned: [called, list]
    deleteReqs,     \* the keys client.delete was called with, in order
    printed         \* what prune wrote about the objects: [summary, count, keys]

pruneVars == <<objects, options, toDelete, deleteReqs, printed>>

\* listAllObjects taken by itself, against a server that answers in pages.
VARIABLES
    bucket,             \* server: the keys under the prefix
    pageSize,           \* server: the most keys it puts in one answer
    allObjects,         \* the keys collected so far
    continuationToken,  \* startAfter of the next request, 0 when undefined
    hasMore,            \* the loop's flag; FALSE: allObjects was returned
    listCalls           \* history: client.list calls so far

listVars == <<bucket, pageSize, allObjects, continuationToken, hasMore,
              listCalls>>

\* cleanupExistingUpload taken by itself.
VARIABLES
    uploads,        \* server: the upload ids that are open
    clean           \* the call: [pc, id, status, warned, threw]

cleanVars == <<uploads, clean>>

\* signRequest taken by itself.
VARIABLES
    headers,        \* the input header map: its keys, [name, cased]
    query,          \* the query of the URL: its [key, value] pairs in URL order
    signed          \* [called, signedHeadersStr, canonicalQuerystring]

signVars == <<headers, query, signed>>

\* The speed estimator of the progress bar taken by itself.
VARIABLES
    clock,          \* Date.now(), in ms
    est,            \* the ProgressState: [bytesUploaded, startTime, recentSamples]
    speed,          \* what calculateSpeed returned, when it was the last call
    credited        \* history: bytes pre-credited for parts of earlier sessions

speedVars == <<clock, est, speed, credited>>

\* Chunking taken by itself.
VARIABLES
    chunking,       \* the UploadState createInitialState returned
    ranges          \* the [start, end] of the parts the for-loop has reached

chunkVars == <<chunking, ranges>>

\* runWithConcurrency taken by itself.
VARIABLES
    rwc,            \* the call: [n, limit, next, executing, results, wait, order]
    fnOut           \* fnOut[i]: where fn(items[i], i) is, and how it settled

poolVars == <<rwc, fnOut>>

\* The functions that are checked by themselves.
restVars == <<listVars, cleanVars, signVars, speedVars, chunkVars, poolVars>>

\* Everything that belongs to the commands and to the checks of the pure
\* functions: untouched by the transfer engine.
auxVars == <<cliVars, storeVars, pruneVars, restVars>>

envVars == <<file, disk, remote, run>>
procVars == <<pc, opts, state, isAborting, handler, pendingParts,
              nextIdx, allParts, progress, task, wr, completed>>
histVars == <<path, loaded, startCompleted, reqs, sentRange, firstFail, completeCalls,
              outcome, prev, late>>
vars == <<envVars, procVars, histVars, auxVars>>

NoProgress ==
    [completedParts |-> 0, totalParts |-> 0, bytesUploaded |-> 0, totalBytes |-> 0]
NoError == [kind |-> "none", part |-> 0]
NoOutcome == [status |-> "none", error |-> NoError]
Success == [status |-> "success", error |-> NoError]
Failure(kind, p) == [status |-> "failure", error |-> [kind |-> kind, part |-> p]]

IdleTasks == [p \in PartNumbers |-> "idle"]
NoWrites == [p \in PartNumbers |-> NullState]
NoRange == [start |-> 0, end |-> 0]
NoRanges == [p \in PartNumbers |-> NoRange]
NoReqs == [p \in PartNumbers |-> 0]
NoPrev ==
    [how |-> "none", partial |-> FALSE, returned |-> {},
     file |-> [size |-> 0, mtime |-> 0]]

\* Mutant: a part leaves `executing` when the store has answered.
ExecutingUntilAnswer(t) == {p \in PartNumbers : t[p] \in {"reading", "fetching"}}

\* The promises in `executing`: started and not settled.
Executing(t) == {p \in PartNumbers : t[p] \in {"reading", "fetching", "writing"}}

\* No command has been started.
NoCmd ==
    [name |-> "none", ci |-> FALSE, quiet |-> FALSE, config |-> FALSE,
     connections |-> 0, files |-> << >>, dryRun |-> FALSE,
     deleteErrors |-> FALSE]
NoExit == [code |-> 0 - 1, by |-> "none"]

CliIdle ==
    /\ cmd = NoCmd
    /\ cpc = "init"
    /\ cur = 0
    /\ small = << >>
    /\ results = << >>
    /\ prompts = 0
    /\ needPrompt = FALSE
    /\ exit = NoExit
    /\ listeners = 0
    /\ sigints = 0

\* No etag; the sidecar that does not exist; loadState not called.
NoEtag == [uid |-> 0, pn |-> 0]
MissingFile == [how |-> "missing", text |-> << >>]
NoReturn == [from |-> "none", threw |-> FALSE, val |-> NullState, mem |-> NullState]

StoreIdle ==
    /\ mem = NullState
    /\ sidecar = MissingFile
    /\ ret = NoReturn
    /\ lastEtag = [p \in PartNumbers |-> NoEtag]
    /\ adds = 0

\* An option that was not given, and one that was.
Undefined == [set |-> FALSE, n |-> 0]
Given(n) == [set |-> TRUE, n |-> n]
NotCalled == [called |-> FALSE, list |-> << >>]
NotPrinted == [summary |-> "none", count |-> 0, keys |-> << >>]

PruneIdle ==
    /\ objects = << >>
    /\ options = [olderThan |-> Undefined, keepLast |-> Undefined,
                  minAge |-> [n |-> 0, unit |-> ""]]
    /\ toDelete = NotCalled
    /\ deleteReqs = << >>
    /\ printed = NotPrinted

ListIdle ==
    /\ bucket = {}
    /\ pageSize = 1
    /\ allObjects = << >>
    /\ continuationToken = 0
    /\ hasMore = FALSE
    /\ listCalls = 0

CleanNotCalled ==
    [pc |-> "idle", id |-> 0, status |-> 0, warned |-> FALSE, threw |-> FALSE]

CleanIdle ==
    /\ uploads = {}
    /\ clean = CleanNotCalled

NotSigned ==
    [called |-> FALSE, signedHeadersStr |-> << >>, canonicalQuerystring |-> << >>]

SignIdle ==
    /\ headers = {}
    /\ query = << >>
    /\ signed = NotSigned

NotQueried == [called |-> FALSE, from |-> "none", bytes |-> 0, ms |-> 0]

SpeedIdle ==
    /\ clock = 0
    /\ est = [bytesUploaded |-> 0, startTime |-> 0, recentSamples |-> << >>]
    /\ speed = NotQueried
    /\ credited = 0

ChunkIdle ==
    /\ chunking = NullState
    /\ ranges = << >>

PoolIdle ==
    /\ rwc = [n |-> 0, limit |-> 0, next |-> 1, executing |-> {},
              results |-> << >>, wait |-> "none", order |-> << >>]
    /\ fnOut = << >>

RestIdle ==
    /\ ListIdle
    /\ CleanIdle
    /\ SignIdle
    /\ SpeedIdle
    /\ ChunkIdle
    /\ PoolIdle

Init ==
    /\ CliIdle
    /\ StoreIdle
    /\ PruneIdle
    /\ RestIdle
    /\ file \in [size : FileSizes, mtime : {0}]
    /\ disk = AbsentFile
    /\ remote = << >>
    /\ run = 0
    /\ pc = "none"
    /\ opts = [chunkSize |-> 0, connections |-> 0]
    /\ state = NullState
    /\ isAborting = FALSE
    /\ handler = FALSE
    /\ pendingParts = << >>
    /\ nextIdx = 1
    /\ allParts = << >>
    /\ progress = NoProgress
    /\ task = IdleTasks
    /\ wr = NoWrites
    /\ completed = FALSE
    /\ path = "none"
    /\ loaded = NullState
    /\ startCompleted = {}
    /\ reqs = NoReqs
    /\ sentRange = NoRanges
    /\ firstFail = NoError
    /\ completeCalls = << >>
    /\ outcome = NoOutcome
    /\ prev = NoPrev
    /\ late = {}

\* The transfer engine at rest, for the specifications of the commands and of
\* the pure functions.
TransferIdle ==
    /\ file = [size |-> 1, mtime |-> 0]
    /\ disk = AbsentFile
    /\ remote = << >>
    /\ run = 0
    /\ pc = "none"
    /\ opts = [chunkSize |-> 0, connections |-> 0]
    /\ state = NullState
    /\ isAborting = FALSE
    /\ handler = FALSE
    /\ pendingParts = << >>
    /\ nextIdx = 1
    /\ allParts = << >>
    /\ progress = NoProgress
    /\ task = IdleTasks
    /\ wr = NoWrites
    /\ completed = FALSE
    /\ path = "none"
    /\ loaded = NullState
    /\ startCompleted = {}
    /\ reqs = NoReqs
    /\ sentRange = NoRanges
    /\ firstFail = NoError
    /\ completeCalls = << >>
    /\ outcome = NoOutcome
    /\ prev = NoPrev
    /\ late = {}

\* The engine's variables other than the SIGINT handler's two.
engineVars == <<envVars, pc, opts, state, pendingParts, nextIdx, allParts, progress,
                task, wr, completed, histVars>>

\* -------------------------------------------------------------- scheduler

\* Mutant: every part number is pending, completed or not.
PendingPartsAll(st) == [i \in 1..st.totalParts |-> i]

\* uploadPartsInParallel: the part numbers 1..totalParts not yet completed,
\* ascending.
PendingParts(st) ==
    SelectSeq([i \in 1..st.totalParts |-> i],
              LAMBDA i : i \notin Numbers(st.completedParts))

\* Mutant: the limit test is off by one.
AtLimitOffByOne(ex, connections) == Cardinality(ex) > connections

\* `if (executing.size >= connections) await Promise.race(executing)`
AtLimit(ex, connections) == Cardinality(ex) >= connections

\* Mutant: the loop does not look at the flag.
LoopBreaksNever(aborting) == FALSE

\* `if (isAborting) break`
LoopBreaks(aborting) == aborting

\* Mutant: the catch block swallows every error.
SwallowErrorAlways(aborting) == TRUE

\* catch (err) { if (!isAborting) throw err }
SwallowError(aborting) == aborting

\* Mutant: the paused return is missing.
ReturnInterruptedNever(aborting) == FALSE

\* `if (isAborting) return { error: 'Upload interrupted', success: false }`
ReturnInterrupted(aborting) == aborting

\* Mutant: the parts are sent in the order they completed.
CompletionPartsUnsorted(parts) == parts

\* completeMultipartUpload sorts the parts it is given by part number.
CompletionParts(parts) == SortParts(parts)

\* Mutant: the status of the answer is not looked at.
ResponseOkAlways(status) == TRUE

\* `if (!response.ok) throw` in completeMultipartUpload
ResponseOk(status) == status = "ok"

\* Mutant: an upload is never found stale.
IsStaleNever(remoteParts, st) == FALSE

\* `remoteParts.length === 0 && state.completedParts.length > 0`
IsStale(remoteParts, st) == remoteParts = {} /\ Len(st.completedParts) > 0

\* The for-loop of uploadPartsInParallel from position idx of pendingParts, run
\* until it next awaits: each iteration starts the upload promise of one part
\* (which runs to its first await, the file read) and awaits Promise.race when
\* the limit is reached; after the loop comes Promise.all.
RECURSIVE Loop(_, _, _, _, _)
Loop(t, pending, idx, aborting, connections) ==
    IF idx > Len(pending) \/ LoopBreaks(aborting)
    THEN [task |-> t, idx |-> idx, wait |-> "waitAll"]
    ELSE LET t1 == [t EXCEPT ![pending[idx]] = "reading"]
         IN IF AtLimit(Executing(t1), connections)
            THEN [task |-> t1, idx |-> idx + 1, wait |-> "race"]
            ELSE Loop(t1, pending, idx + 1, aborting, connections)

\* uploadMultipart after uploadPartsInParallel returned `parts`: the paused
\* return, or the complete-multipart request.
Finish(parts) ==
    IF ReturnInterrupted(isAborting)
    THEN /\ pc' = "returned"
         /\ outcome' = Failure("interrupted", 0)
         /\ UNCHANGED completeCalls
    ELSE /\ pc' = "complete"
         /\ completeCalls' = Append(completeCalls,
                [run |-> run, uploadId |-> state.uploadId,
                 n |-> state.totalParts, aborting |-> isAborting,
                 parts |-> CompletionParts(parts)])
         /\ UNCHANGED outcome

\* The loop continues from idx with task table t; Promise.all of an empty set
\* resolves at once.
Resume(t, pending, idx, parts) ==
    LET lr == Loop(t, pending, idx, isAborting, opts.connections)
    IN /\ task' = lr.task
       /\ nextIdx' = lr.idx
       /\ IF lr.wait = "waitAll" /\ Executing(lr.task) = {}
          THEN Finish(parts)
          ELSE pc' = lr.wait /\ UNCHANGED <<outcome, completeCalls>>

\* createProgressState(filename, totalParts, totalBytes)
createProgressState(totalParts, totalBytes) ==
    [completedParts |-> 0, totalParts |-> totalParts, bytesUploaded |-> 0,
     totalBytes |-> totalBytes]

\* Mutant: the end of a part is not cut at the end of the file.
ByteRangeUncut(st, p) ==
    [start |-> (p - 1) * st.chunkSize, end |-> p * st.chunkSize]

\* `start` and `end` of part p in the for-loop; end is
\* Math.min(start + chunkSize, fileSize).
ByteRange(st, p) ==
    LET start == (p - 1) * st.chunkSize
    IN [start |-> start,
        end |-> IF start + st.chunkSize < st.fileSize
                THEN start + st.chunkSize ELSE st.fileSize]

\* Mutant: the ranges follow the chunk size of this invocation's options.
PartRangeOfOptions(p) == ByteRange([state EXCEPT !.chunkSize = opts.chunkSize], p)

\* The bytes of part p the for-loop slices from the file: by `state`, be it
\* created by this invocation or loaded from the sidecar.
PartRange(p) == ByteRange(state, p)

\* Bytes of part p in the for-loop: end - start.
PartSize(st, p) == ByteRange(st, p).end - ByteRange(st, p).start

\* Mutant: every part already completed counts as a whole chunk.
CreditedSizeWholeChunk(st, p) == st.chunkSize

\* Bytes credited for a part that was completed by an earlier invocation.
CreditedSize(st, p) ==
    IF p < st.totalParts THEN st.chunkSize
    ELSE st.fileSize - (st.totalParts - 1) * st.chunkSize

RECURSIVE SumCredited(_, _)
SumCredited(st, cp) ==
    IF cp = << >> THEN 0
    ELSE CreditedSize(st, Head(cp).partNumber) + SumCredited(st, Tail(cp))

\* "Update progress with already completed parts"
PreCredit(pr, st) ==
    [pr EXCEPT !.completedParts = Len(st.completedParts),
               !.bytesUploaded = SumCredited(st, st.completedParts)]

\* updateProgress(state, bytesUploaded), the counters of it.
updateProgress(pr, bytes) ==
    [pr EXCEPT !.completedParts = @ + 1, !.bytesUploaded = @ + bytes]

\* `percent` of renderProgressBar: Math.round(bytesUploaded/totalBytes*100),
\* halves rounded up.
Percent(pr) ==
    IF pr.totalBytes > 0
    THEN (200 * pr.bytesUploaded + pr.totalBytes) \div (2 * pr.totalBytes)
    ELSE 0

\* setupAbortHandler, then uploadPartsInParallel up to its first await.
EnterTransfer(st) ==
    /\ handler' = TRUE
    /\ pendingParts' = PendingParts(st)
    /\ startCompleted' = Numbers(st.completedParts)
    /\ allParts' = st.completedParts
    /\ progress' = PreCredit(progress, st)
    /\ Resume(IdleTasks, PendingParts(st), 1, st.completedParts)

\* The upload promise of a part settles, leaving task table t and allParts
\* `parts`.  A loop waiting in Promise.race or Promise.all reacts in the same
\* step: a rejection is thrown to uploadMultipart's catch; a fulfilment wakes
\* the for-loop, or ends Promise.all when it was the last.  After
\* uploadPartsInParallel has thrown, the promises still running settle unobserved.
Settled(t, rejected, err, parts) ==
    /\ allParts' = parts
    /\ progress' = IF Len(parts) > Len(allParts)
                   THEN updateProgress(progress,
                                       PartSize(state, parts[Len(parts)].partNumber))
                   ELSE progress
    /\ IF pc \notin {"race", "waitAll"}
       THEN task' = t /\ UNCHANGED <<pc, nextIdx, outcome, completeCalls>>
       ELSE IF rejected
       THEN /\ task' = t
            /\ pc' = "returned"
            /\ outcome' = [status |-> "failure", error |-> err]
            /\ UNCHANGED <<nextIdx, completeCalls>>
       ELSE IF pc = "race"
       THEN Resume(t, pendingParts, nextIdx, parts)
       ELSE IF Executing(t) = {}
       THEN task' = t /\ Finish(parts) /\ UNCHANGED nextIdx
       ELSE task' = t /\ UNCHANGED <<pc, nextIdx, outcome, completeCalls>>

\* The catch block of the upload promise of part p.
Caught(p, kind) ==
    IF SwallowError(isAborting)
    THEN Settled([task EXCEPT ![p] = "settled"], FALSE, NoError, allParts)
    ELSE Settled([task EXCEPT ![p] = "settled"], TRUE,
                 [kind |-> kind, part |-> p], allParts)

\* ------------------------------------------------------------ orchestrator

\* A new invocation: stat, loadState, hasFileChanged (no await of these can
\* observe anything another step changes).  `path` records what was found:
\* "fresh" (no usable sidecar), "changed" (a sidecar whose size or mtime is not
\* the file's), else "resume", which ListPartsOk turns into "stale" when the
\* store lists no part while the sidecar records some.
StartRun ==
    /\ pc = "none"
    /\ run < MaxRuns
    /\ run' = run + 1
    /\ \E cs \in ChunkSizes, conn \in 1..MaxConnections :
           opts' = [chunkSize |-> cs, connections |-> conn]
    /\ LET st0 == loadState(disk)
           changed == st0 # NullState /\ hasFileChanged(file, st0)
           st == IF changed THEN NullState ELSE st0
       IN /\ state' = st
          /\ loaded' = st0
          /\ path' = IF st0 = NullState THEN "fresh"
                     ELSE IF file.size # st0.fileSize \/ file.mtime # st0.fileModified
                     THEN "changed" ELSE "resume"
          /\ pc' = IF st = NullState THEN "initiate" ELSE "listParts"
    /\ progress' = createProgressState(CeilDiv(file.size, opts'.chunkSize),
                                       file.size)
    /\ UNCHANGED <<file, disk, remote, isAborting, handler, pendingParts,
                   nextIdx, allParts, task, wr, completed, startCompleted, reqs, sentRange,
                   firstFail, completeCalls, outcome, prev, late>>
    /\ UNCHANGED auxVars

\* initiateMultipartUpload answered with an UploadId; createInitialState; the
\* saveState write is issued.
InitiateOk ==
    /\ pc = "initiate"
    /\ remote' = Append(remote, [open |-> TRUE, parts |-> {}])
    /\ state' = createInitialState(Len(remote) + 1, file.size, file.mtime,
                                   opts.chunkSize)
    /\ pc' = "saveInit"
    /\ UNCHANGED <<file, disk, run, opts, isAborting, handler,
                   pendingParts, nextIdx, allParts, progress, task, wr, completed, path,
                   loaded, startCompleted, reqs, sentRange, firstFail, completeCalls,
                   outcome, prev, late>>
    /\ UNCHANGED auxVars

\* initiateMultipartUpload threw (non-2xx, or no UploadId in the response).
InitiateFail ==
    /\ pc = "initiate"
    /\ pc' = "returned"
    /\ outcome' = Failure("initiate", 0)
    /\ UNCHANGED <<envVars, opts, state, isAborting, handler,
                   pendingParts, nextIdx, allParts, progress, task, wr, completed, path,
                   loaded, startCompleted, reqs, sentRange, firstFail, completeCalls, prev, late>>
    /\ UNCHANGED auxVars

\* The saveState write of the initial state lands; the transfer starts.
SaveInitLand ==
    /\ pc = "saveInit"
    /\ disk' = StateFile(state)
    /\ EnterTransfer(state)
    /\ UNCHANGED <<file, remote, run, opts, state, isAborting, wr,
                   completed, path, loaded, reqs, sentRange, firstFail, prev, late>>
    /\ UNCHANGED auxVars

\* listParts answered: the parts of an open upload, or 404 read as no parts.
\* A stale upload starts deleteState (the file exists); otherwise the transfer
\* starts with the loaded state.
ListPartsOk ==
    /\ pc = "listParts"
    /\ LET remoteParts == IF remote[state.uploadId].open
                          THEN remote[state.uploadId].parts ELSE {}
       IN /\ path' = IF remoteParts = {} /\ state.completedParts # << >>
                     THEN "stale" ELSE path
          /\ IF IsStale(remoteParts, state)
             THEN /\ pc' = "staleClear"
                  /\ UNCHANGED <<handler, pendingParts, startCompleted,
                                 allParts, progress, task, nextIdx, outcome,
                                 completeCalls>>
             ELSE EnterTransfer(state)
    /\ UNCHANGED <<envVars, opts, state, isAborting, wr, completed,
                   loaded, reqs, sentRange, firstFail, prev, late>>
    /\ UNCHANGED auxVars

\* listParts threw (a status other than 2xx and 404).
ListPartsFail ==
    /\ pc = "listParts"
    /\ pc' = "returned"
    /\ outcome' = Failure("listParts", 0)
    /\ UNCHANGED <<envVars, opts, state, isAborting, handler,
                   pendingParts, nextIdx, allParts, progress, task, wr, completed, path,
                   loaded, startCompleted, reqs, sentRange, firstFail, completeCalls, prev, late>>
    /\ UNCHANGED auxVars

\* deleteState is called on the stale path ("stale...") and after the upload
\* completed ("done...").  First half: Bun.write(stateFile, "").
DeleteClear ==
    /\ pc \in {"staleClear", "doneClear"}
    /\ disk' = EmptyFile
    /\ pc' = IF pc = "staleClear" THEN "staleUnlink" ELSE "doneUnlink"
    /\ UNCHANGED <<file, remote, run, opts, state, isAborting, handler,
                   pendingParts, nextIdx, allParts, progress, task, wr, completed,
                   histVars>>
    /\ UNCHANGED auxVars

\* deleteState, second half: unlink.  On the stale path the upload is then
\* initiated anew; after a completed upload the success outcome is returned.
DeleteUnlink ==
    /\ pc \in {"staleUnlink", "doneUnlink"}
    /\ disk' = AbsentFile
    /\ IF pc = "staleUnlink"
       THEN pc' = "initiate" /\ UNCHANGED outcome
       ELSE pc' = "returned" /\ outcome' = Success
    /\ UNCHANGED <<file, remote, run, opts, state, isAborting, handler,
                   pendingParts, nextIdx, allParts, progress, task, wr, completed, path,
                   loaded, startCompleted, reqs, sentRange, firstFail, completeCalls, prev, late>>
    /\ UNCHANGED auxVars

\* The answer to complete-multipart.  The store accepts only an open upload.
CompleteResponse ==
    /\ pc = "complete"
    /\ \E status \in {"ok", "error"} :
        /\ status = "ok" => remote[state.uploadId].open
        /\ completed' = (status = "ok")
        /\ remote' = IF status = "ok"
                     THEN [remote EXCEPT ![state.uploadId] =
                                       [open |-> FALSE, parts |-> {}]]
                     ELSE remote
        /\ IF ResponseOk(status)
           THEN pc' = "doneClear" /\ UNCHANGED outcome
           ELSE pc' = "returned" /\ outcome' = Failure("complete", 0)
    /\ UNCHANGED <<file, disk, run, opts, state, isAborting, handler,
                   pendingParts, nextIdx, allParts, progress, task, wr, path, loaded,
                   startCompleted, reqs, sentRange, firstFail, completeCalls, prev, late>>
    /\ UNCHANGED auxVars

\* ------------------------------------------------------------- part tasks

\* The chunk has been read; uploadPart sends the request.  With the signal
\* already aborted fetch rejects at once and the catch block runs.
TaskReadDone(p) ==
    /\ pc # "none"
    /\ task[p] = "reading"
    /\ IF isAborting
       THEN Caught(p, "aborted") /\ UNCHANGED <<reqs, sentRange>>
       ELSE /\ task' = [task EXCEPT ![p] = "fetching"]
            /\ reqs' = [reqs EXCEPT ![p] = @ + 1]
            /\ sentRange' = [sentRange EXCEPT ![p] = PartRange(p)]
            /\ UNCHANGED <<pc, nextIdx, allParts, progress, outcome, completeCalls>>
    /\ UNCHANGED <<envVars, opts, state, isAborting, handler,
                   pendingParts, wr, completed, path, loaded, startCompleted,
                   firstFail, prev, late>>
    /\ UNCHANGED auxVars

\* Reading the chunk failed (I/O error).
TaskReadFail(p) ==
    /\ pc # "none"
    /\ task[p] = "reading"
    /\ Caught(p, "io")
    /\ firstFail' = IF ~isAborting /\ firstFail = NoError
                    THEN [kind |-> "io", part |-> p] ELSE firstFail
    /\ UNCHANGED <<envVars, opts, state, isAborting, handler,
                   pendingParts, wr, completed, path, loaded, startCompleted,
                   reqs, sentRange, prev, late>>
    /\ UNCHANGED auxVars

\* The store answered the upload-part request with 2xx and an ETag.
\* addCompletedPart upserts the part into the shared state and issues the
\* write of the whole state as it is now.
TaskResponseOk(p) ==
    /\ pc # "none"
    /\ task[p] = "fetching"
    /\ ~isAborting
    /\ remote[state.uploadId].open
    /\ remote' = [remote EXCEPT ![state.uploadId].parts = @ \cup {p}]
    /\ state' = [state EXCEPT !.completedParts = Upsert(@, Part(state.uploadId, p))]
    /\ wr' = [wr EXCEPT ![p] = state']
    /\ task' = [task EXCEPT ![p] = "writing"]
    /\ UNCHANGED <<file, disk, run, pc, opts, isAborting, handler,
                   pendingParts, nextIdx, allParts, progress, completed, histVars>>
    /\ UNCHANGED auxVars

\* uploadPart threw: a non-2xx answer, or an answer without ETag.
TaskResponseFail(p) ==
    /\ pc # "none"
    /\ task[p] = "fetching"
    /\ ~isAborting
    /\ Caught(p, "response")
    /\ firstFail' = IF firstFail = NoError
                    THEN [kind |-> "response", part |-> p] ELSE firstFail
    /\ UNCHANGED <<envVars, opts, state, isAborting, handler,
                   pendingParts, wr, completed, path, loaded, startCompleted,
                   reqs, sentRange, prev, late>>
    /\ UNCHANGED auxVars

\* The store's 2xx answer to a request in flight reaches the client after the
\* SIGINT handler aborted the controller: fetch has rejected with AbortError,
\* the answer and its ETag are dropped, and the catch block runs.
TaskResponseLate(p) ==
    /\ pc # "none"
    /\ task[p] = "fetching"
    /\ isAborting
    /\ remote[state.uploadId].open
    /\ late' = late \cup {p}
    /\ Caught(p, "aborted")
    /\ UNCHANGED <<envVars, opts, state, isAborting, handler,
                   pendingParts, wr, completed, path, loaded, startCompleted,
                   reqs, sentRange, firstFail, prev>>
    /\ UNCHANGED auxVars

\* The request in flight was aborted by the SIGINT handler before any answer
\* came: AbortError.
TaskAborted(p) ==
    /\ pc # "none"
    /\ task[p] = "fetching"
    /\ isAborting
    /\ Caught(p, "aborted")
    /\ UNCHANGED <<envVars, opts, state, isAborting, handler,
                   pendingParts, wr, completed, path, loaded, startCompleted,
                   reqs, sentRange, firstFail, prev, late>>
    /\ UNCHANGED auxVars

\* The Bun.write issued by addCompletedPart for part p lands: the sidecar now
\* holds the JSON that write carried.  addCompletedPart returns, the part is
\* pushed on allParts and the upload promise fulfils.
TaskWriteLand(p) ==
    /\ pc # "none"
    /\ task[p] = "writing"
    /\ disk' = StateFile(wr[p])
    /\ wr' = [wr EXCEPT ![p] = NullState]
    /\ Settled([task EXCEPT ![p] = "settled"], FALSE, NoError,
               Append(allParts, Part(state.uploadId, p)))
    /\ UNCHANGED <<file, remote, run, opts, state, isAborting, handler,
                   pendingParts, completed, path, loaded, startCompleted, reqs, sentRange,
                   firstFail, prev, late>>
    /\ UNCHANGED auxVars

\* ------------------------------------------------- signals and process end

\* A Bun.write is in flight: the initial saveState, an addCompletedPart, or
\* deleteState's clearing write.
WriteInFlight ==
    \/ pc \in {"saveInit", "staleClear", "doneClear"}
    \/ \E p \in PartNumbers : task[p] = "writing"

\* The process is gone.  A rewrite of the sidecar that was in flight may have
\* been cut short.  What remains is the file, the sidecar and the store.
EndProcess(how) ==
    /\ pc # "none"
    /\ prev' = [how |-> IF how = "crash" THEN "crash"
                         ELSE IF isAborting THEN "sigint" ELSE "exit",
                partial |-> /\ path = "fresh"
                            /\ handler
                            /\ Cardinality(Numbers(allParts)) < state.totalParts,
                returned |-> IF how = "crash" /\ ~completed
                             THEN Numbers(allParts) ELSE {},
                file |-> file]
    /\ disk' \in IF WriteInFlight THEN {disk, TornFile} ELSE {disk}
    /\ pc' = "none"
    /\ opts' = [chunkSize |-> 0, connections |-> 0]
    /\ state' = NullState
    /\ isAborting' = FALSE
    /\ handler' = FALSE
    /\ pendingParts' = << >>
    /\ nextIdx' = 1
    /\ allParts' = << >>
    /\ progress' = NoProgress
    /\ task' = IdleTasks
    /\ wr' = NoWrites
    /\ completed' = FALSE
    /\ path' = "none"
    /\ loaded' = NullState
    /\ startCompleted' = {}
    /\ reqs' = NoReqs
    /\ sentRange' = NoRanges
    /\ firstFail' = NoError
    /\ outcome' = NoOutcome
    /\ late' = {}
    /\ UNCHANGED <<file, remote, run, completeCalls>>
    /\ UNCHANGED auxVars

\* SIGINT, first time: the handler sets isAborting, aborts the controller and
\* starts its 1000 ms timer (pending exactly while isAborting holds).
Sigint ==
    /\ pc \notin {"none", "returned"}
    /\ handler
    /\ ~isAborting
    /\ isAborting' = TRUE
    /\ UNCHANGED <<envVars, pc, opts, state, handler, pendingParts, nextIdx,
                   allParts, progress, task, wr, completed, histVars>>
    /\ UNCHANGED auxVars

\* SIGINT again: `if (isAborting) process.exit(1)`.
SigintAgain ==
    /\ handler
    /\ isAborting
    /\ EndProcess("exit1")

\* The handler's timer fires: process.exit(0).
TimerExit ==
    /\ handler
    /\ isAborting
    /\ EndProcess("exit0")

\* uploadMultipart has returned and the command exits.
ProcessExit ==
    /\ pc = "returned"
    /\ EndProcess("exit")

\* The process is killed: a crash, a power loss, SIGKILL, or SIGINT before the
\* handler is registered.
Crash ==
    EndProcess("crash")

\* ------------------------------------------------------------ environment

\* Between invocations, with a sidecar left behind, the file is edited: its
\* size or its mtime changes.
FileChange ==
    /\ pc = "none"
    /\ run \in 1..(MaxRuns - 1)
    /\ loadState(disk) # NullState
    /\ \E f \in [size : FileSizes, mtime : Mtimes] :
        /\ f # file
        /\ file' = f
    /\ UNCHANGED <<disk, remote, run, procVars, histVars>>
    /\ UNCHANGED auxVars

\* Between invocations the store expires the upload the sidecar names and
\* forgets its parts.
Expire ==
    /\ pc = "none"
    /\ run \in 1..(MaxRuns - 1)
    /\ \E u \in 1..Len(remote) :
        /\ remote[u].open
        /\ loadState(disk).uploadId = u
        /\ remote' = [remote EXCEPT ![u] = [open |-> FALSE, parts |-> {}]]
    /\ UNCHANGED <<file, disk, run, procVars, histVars>>
    /\ UNCHANGED auxVars

Next ==
    \/ StartRun
    \/ InitiateOk
    \/ InitiateFail
    \/ SaveInitLand
    \/ ListPartsOk
    \/ ListPartsFail
    \/ DeleteClear
    \/ DeleteUnlink
    \/ CompleteResponse
    \/ \E p \in PartNumbers : TaskReadDone(p)
    \/ \E p \in PartNumbers : TaskReadFail(p)
    \/ \E p \in PartNumbers : TaskResponseOk(p)
    \/ \E p \in PartNumbers : TaskResponseFail(p)
    \/ \E p \in PartNumbers : TaskResponseLate(p)
    \/ \E p \in PartNumbers : TaskAborted(p)
    \/ \E p \in PartNumbers : TaskWriteLand(p)
    \/ Sigint
    \/ SigintAgain
    \/ TimerExit
    \/ ProcessExit
    \/ Crash
    \/ FileChange
    \/ Expire

Spec == Init /\ [][Next]_vars

TypeOK ==
    /\ pc \in {"none", "initiate", "saveInit", "listParts", "staleClear",
               "staleUnlink", "race", "waitAll", "complete", "doneClear",
               "doneUnlink", "returned"}
    /\ disk.kind \in {"absent", "empty", "torn", "state"}
    /\ run \in 0..MaxRuns
    /\ \A p \in PartNumbers :
        task[p] \in {"idle", "reading", "fetching", "writing", "settled"}

\* --------------------------------------------- the retention filter by itself

MaxObjects == 5

DayMs == 24 * 60 * 60 * 1000

\* The time of the call (options.now ?? Date.now()).
Now == 22 * DayMs

AgesInDays == {1, 2, 3, 11, 21}

\* Ages of the objects of a listing: whole days, and twelve hours.
HalfDayMs == 12 * 60 * 60 * 1000
Ages == {d * DayMs : d \in AgesInDays} \cup {HalfDayMs}

\* The default of --min-age.
DefaultMinAge == [n |-> 1, unit |-> "d"]

\* --min-age arguments: "0", "1" (no unit), "1d", "36h", "2880m", "1w".
MinAges ==
    {[n |-> 0, unit |-> ""], [n |-> 1, unit |-> ""], DefaultMinAge,
     [n |-> 36, unit |-> "h"], [n |-> 2880, unit |-> "m"],
     [n |-> 1, unit |-> "w"]}

PruneOptions ==
    [olderThan : {Undefined, Given(0), Given(2)},
     keepLast : {Undefined, Given(0), Given(3)},
     minAge : MinAges]

\* Mutant: every duration is read as 0.
parseAgeZero(age) == 0

\* parseAge: digits with an optional d, h or m; anything else is 0, no unit
\* is days.
parseAge(age) ==
    IF age.unit \notin {"", "d", "h", "m"} THEN 0
    ELSE CASE age.unit = "h" -> age.n * 60 * 60 * 1000
           [] age.unit = "m" -> age.n * 60 * 1000
           [] OTHER -> age.n * 24 * 60 * 60 * 1000

\* One step of the stable sort by `b.lastModified - a.lastModified`: o goes
\* behind every object that is as new as it is or newer.
InsertNewestFirst(s, o) ==
    LET k == Cardinality({i \in 1..Len(s) : s[i].lastModified >= o.lastModified})
    IN SubSeq(s, 1, k) \o <<o>> \o SubSeq(s, k + 1, Len(s))

RECURSIVE SortNewestFirst(_)
SortNewestFirst(objs) ==
    IF objs = << >> THEN << >>
    ELSE InsertNewestFirst(SortNewestFirst(SubSeq(objs, 1, Len(objs) - 1)),
                           objs[Len(objs)])

\* Mutant: nothing is protected.
ProtectedKeysNone(sorted, keepLast) == {}

\* `if (options.keepLast)`: the keys of the first min(keepLast, length)
\* objects of the sorted list.
ProtectedKeys(sorted, keepLast) ==
    IF keepLast.set /\ keepLast.n # 0
    THEN {sorted[i].key : i \in 1..(IF keepLast.n < Len(sorted) THEN keepLast.n
                                    ELSE Len(sorted))}
    ELSE {}

\* `options.olderThan !== undefined` and `age <= olderThanMs`
TooYoung(age, olderThan) == olderThan.set /\ age <= olderThan.n * DayMs

filterObjectsForPrune(objs, o) ==
    LET minAgeMs == parseAge(o.minAge)
        sorted == SortNewestFirst(objs)
        protectedKeys == ProtectedKeys(sorted, o.keepLast)
        keep(obj) ==
            LET age == Now - obj.lastModified
            IN /\ ~(age <= minAgeMs)
               /\ obj.key \notin protectedKeys
               /\ ~TooYoung(age, o.olderThan)
    IN SelectSeq(sorted, keep)

\* What the filter leaves alone.
besidesPrune == <<envVars, procVars, histVars, cliVars, storeVars, restVars>>

\* listAllObjects hands over one more object; keys of a listing are distinct.
ListObject ==
    /\ ~toDelete.called
    /\ Len(objects) < MaxObjects
    /\ \E a \in Ages :
        objects' = Append(objects, [key |-> Len(objects) + 1,
                                    lastModified |-> Now - a])
    /\ UNCHANGED <<options, toDelete, deleteReqs, printed, besidesPrune>>

\* toDelete = filterObjectsForPrune(objects, {keepLast, minAge, olderThan})
FilterObjects ==
    /\ ~toDelete.called
    /\ toDelete' = [called |-> TRUE, list |-> filterObjectsForPrune(objects, options)]
    /\ UNCHANGED <<objects, options, deleteReqs, printed, besidesPrune>>

PruneInit ==
    /\ TransferIdle
    /\ CliIdle
    /\ StoreIdle
    /\ RestIdle
    /\ objects = << >>
    /\ options \in PruneOptions
    /\ toDelete = NotCalled
    /\ deleteReqs = << >>
    /\ printed = NotPrinted

PruneNext ==
    \/ ListObject
    \/ FilterObjects

PruneSpec == PruneInit /\ [][PruneNext]_vars

\* ------------------------------------------------- the listing by itself

MaxBucket == 5
MaxPage == 3

\* What the code asks for in one request.
maxKeys == 1000

\* Pages the server may use: never more keys than the request allows.
PageSizes == {n \in 1..MaxPage : n <= maxKeys}

\* The server's answer to list({maxKeys, prefix, startAfter}): the first keys
\* above startAfter in key order, n of them at most, and whether more follow.
RECURSIVE FirstKeys(_, _)
FirstKeys(keys, n) ==
    IF n = 0 \/ keys = {} THEN << >>
    ELSE LET k == CHOOSE x \in keys : \A y \in keys : x <= y
         IN <<k>> \o FirstKeys(keys \ {k}, n - 1)

ListAnswer(startAfter, n) ==
    LET rest == {k \in bucket : k > startAfter}
    IN [contents |-> FirstKeys(rest, n), isTruncated |-> Cardinality(rest) > n]

\* Mutant: the loop goes on from the first key of the page.
NextTokenFirst(objs) == objs[1]

\* `continuationToken = objects[objects.length - 1].key`
NextToken(objs) == objs[Len(objs)]

\* What the listing leaves alone.
besidesList == <<envVars, procVars, histVars, cliVars, storeVars, pruneVars,
                 cleanVars, signVars, speedVars, chunkVars, poolVars>>

\* One turn of the while loop: the request, its answer, the push, and the
\* token of the next request or the end of the loop.
ListPage ==
    /\ hasMore
    /\ \E n \in 1..pageSize :
        LET result == ListAnswer(continuationToken, n)
            objs == result.contents
        IN /\ allObjects' = allObjects \o objs
           /\ IF result.isTruncated /\ Len(objs) > 0
              THEN continuationToken' = NextToken(objs) /\ UNCHANGED hasMore
              ELSE hasMore' = FALSE /\ UNCHANGED continuationToken
    /\ listCalls' = listCalls + 1
    /\ UNCHANGED <<bucket, pageSize, besidesList>>

ListInit ==
    /\ TransferIdle
    /\ CliIdle
    /\ StoreIdle
    /\ PruneIdle
    /\ CleanIdle
    /\ SignIdle
    /\ SpeedIdle
    /\ ChunkIdle
    /\ PoolIdle
    /\ bucket \in SUBSET (1..MaxBucket)
    /\ pageSize \in PageSizes
    /\ allObjects = << >>
    /\ continuationToken = 0
    /\ hasMore = TRUE
    /\ listCalls = 0

ListNext == ListPage

ListSpec == ListInit /\ [][ListNext]_vars

\* The loop is the only thing running: a turn that can be taken is taken.
ListFairSpec == ListSpec /\ WF_vars(ListPage)

\* --------------------------------------------------------------- commands

MaxFiles == 3

\* A valid input file: at or above the multipart threshold ("large", with or
\* without a sidecar that checkResumableUpload accepts) or below it ("small").
FileKinds ==
    [kind : {"large"}, resumable : BOOLEAN] \cup
    [kind : {"small"}, resumable : {FALSE}]

FileLists == UNION {[1..n -> FileKinds] : n \in 0..MaxFiles}

\* What a command is started with and what it finds: the global flags,
\* whether loadConfig finds a configuration, the valid files (upload),
\* --dry-run and whether deleteObjects reports errors (prune).
Commands ==
    [name : {"upload"}, ci : BOOLEAN, quiet : BOOLEAN, config : BOOLEAN,
     connections : 1..MaxConnections, files : FileLists,
     dryRun : {FALSE}, deleteErrors : {FALSE}] \cup
    [name : {"prune"}, ci : BOOLEAN, quiet : BOOLEAN, config : BOOLEAN,
     connections : {0}, files : {<< >>},
     dryRun : BOOLEAN, deleteErrors : BOOLEAN]

\* `files.filter(f => f.size >= threshold && !f.blob)` and its complement, as
\* indices into the file list.
LargeFiles(files) ==
    SelectSeq([i \in 1..Len(files) |-> i], LAMBDA i : files[i].kind = "large")
SmallFiles(files) ==
    SelectSeq([i \in 1..Len(files) |-> i], LAMBDA i : files[i].kind = "small")

\* UploadOutcome: UploadResult | UploadError.
UploadResult(i) == [file |-> i, success |-> TRUE, error |-> ""]
UploadError(i, e) == [file |-> i, success |-> FALSE, error |-> e]

\* `results.filter(r => r.success).length` and `results.filter(r => !r.success).length`
successCount(res) == Cardinality({k \in 1..Len(res) : res[k].success})
failCount(res) == Cardinality({k \in 1..Len(res) : ~res[k].success})

\* The exit code upload ends with.
ExitCode(res) ==
    IF failCount(res) = 0 THEN 0
    ELSE IF successCount(res) > 0 THEN 4
    ELSE 1

\* process.exit(code)
Exit(code, by) ==
    /\ cpc' = "exited"
    /\ exit' = [code |-> code, by |-> by]

\* displayResults and the exit by the counts.
Conclude(res) ==
    /\ results' = res
    /\ Exit(ExitCode(res), "results")

\* runWithConcurrency keeps min(limit, remaining) uploads active, started in
\* item order: sm with the first waiting items made active up to the limit.
RECURSIVE Refill(_, _, _)
Refill(sm, order, limit) ==
    LET active == {i \in 1..Len(sm) : sm[i] = "active"}
        waiting == SelectSeq(order, LAMBDA i : sm[i] = "waiting")
    IN IF Cardinality(active) >= limit \/ waiting = << >> THEN sm
       ELSE Refill([sm EXCEPT ![Head(waiting)] = "active"], order, limit)

\* After the large files: the small files are handed to runWithConcurrency,
\* or, with none, the command concludes.
StartSmall(res) ==
    LET order == SmallFiles(cmd.files)
        sm0 == [i \in 1..Len(cmd.files) |->
                   IF cmd.files[i].kind = "small" THEN "waiting" ELSE "large"]
    IN IF order = << >>
       THEN Conclude(res) /\ UNCHANGED small
       ELSE /\ small' = Refill(sm0, order, cmd.connections)
            /\ results' = res
            /\ cpc' = "small"
            /\ UNCHANGED exit

\* The loop over the large files reaches its k-th file with results res:
\* checkResumableUpload, and the resume prompt unless --ci.
NextLarge(k, res) ==
    LET large == LargeFiles(cmd.files)
    IN IF k > Len(large)
       THEN StartSmall(res) /\ cur' = 0 /\ UNCHANGED <<prompts, needPrompt>>
       ELSE LET canResume == cmd.files[large[k]].resumable
            IN /\ cur' = k
               /\ results' = res
               /\ needPrompt' = (needPrompt \/ canResume)
               /\ IF canResume /\ ~cmd.ci
                  THEN cpc' = "prompt" /\ prompts' = prompts + 1
                  ELSE cpc' = "transfer" /\ UNCHANGED prompts
               /\ UNCHANGED <<small, exit>>

\* The file the large-file loop is at.
CurFile == LargeFiles(cmd.files)[cur]

\* What the commands leave alone.
besidesCli == <<engineVars, storeVars, pruneVars, restVars>>

\* upload() up to its first file: loadConfig (missing: exit 2, with or without
\* --ci), the valid files (none: exit 1), then the large-file loop.
UploadStart ==
    /\ cpc = "init"
    /\ cmd.name = "upload"
    /\ IF ~cmd.config
       THEN /\ Exit(2, "config")
            /\ needPrompt' = TRUE
            /\ UNCHANGED <<cur, small, results, prompts>>
       ELSE IF cmd.files = << >>
       THEN /\ Exit(1, "nofiles")
            /\ UNCHANGED <<cur, small, results, prompts, needPrompt>>
       ELSE NextLarge(1, << >>)
    /\ UNCHANGED <<cmd, isAborting, handler, besidesCli>>
    /\ UNCHANGED <<listeners, sigints>>

\* The resume prompt is answered: cancelled (exit 0), yes, or no
\* (cleanupExistingUpload: the upload is aborted and the sidecar deleted).
PromptAnswer ==
    /\ cpc = "prompt"
    /\ \E a \in {"yes", "no", "cancel"} :
        IF a = "cancel"
        THEN Exit(0, "cancel") /\ UNCHANGED cmd
        ELSE /\ cpc' = "transfer"
             /\ cmd' = IF a = "no"
                       THEN [cmd EXCEPT !.files[CurFile].resumable = FALSE]
                       ELSE cmd
             /\ UNCHANGED exit
    /\ UNCHANGED <<cur, small, results, prompts, needPrompt, isAborting,
                   handler, besidesCli>>
    /\ UNCHANGED <<listeners, sigints>>

\* uploadMultipart rejects: file.stat() (or the stat of hasFileChanged) throws
\* before the try block is entered, the file having gone since upload()
\* looked at it.  upload() awaits the call outside any try, so main()'s catch
\* prints the error and exits with 1.
TransferReject ==
    /\ cpc = "transfer"
    /\ Exit(1, "rejected")
    /\ UNCHANGED <<cmd, cur, small, results, prompts, needPrompt, isAborting,
                   handler, listeners, sigints, besidesCli>>

\* uploadMultipart fails before the transfer starts (initiate or list-parts).
TransferEarlyFail ==
    /\ cpc = "transfer"
    /\ NextLarge(cur + 1, Append(results, UploadError(CurFile, "failed")))
    /\ UNCHANGED <<cmd, isAborting, handler, besidesCli>>
    /\ UNCHANGED <<listeners, sigints>>

\* uploadMultipart reaches setupAbortHandler and uploadPartsInParallel.  With
\* isAborting still set from an earlier file the loop breaks at once and the
\* paused outcome is returned.
TransferSchedule ==
    /\ cpc = "transfer"
    /\ handler' = TRUE
    /\ listeners' = listeners + 1
    /\ UNCHANGED sigints
    /\ IF LoopBreaks(isAborting) /\ ReturnInterrupted(isAborting)
       THEN NextLarge(cur + 1,
                Append(results, UploadError(CurFile, "Upload interrupted")))
       ELSE /\ cpc' = "parts"
            /\ UNCHANGED <<cur, small, results, prompts, needPrompt, exit>>
    /\ UNCHANGED <<cmd, isAborting, besidesCli>>

\* A part upload fails and uploadPartsInParallel throws.
PartsThrow ==
    /\ cpc = "parts"
    /\ ~SwallowError(isAborting)
    /\ NextLarge(cur + 1, Append(results, UploadError(CurFile, "failed")))
    /\ UNCHANGED <<cmd, isAborting, handler, besidesCli>>
    /\ UNCHANGED <<listeners, sigints>>

\* uploadPartsInParallel returns: the paused outcome, or on to
\* complete-multipart.
PartsReturn ==
    /\ cpc = "parts"
    /\ IF ReturnInterrupted(isAborting)
       THEN NextLarge(cur + 1,
                Append(results, UploadError(CurFile, "Upload interrupted")))
       ELSE /\ cpc' = "completing"
            /\ UNCHANGED <<cur, small, results, prompts, needPrompt, exit>>
    /\ UNCHANGED <<cmd, isAborting, handler, besidesCli>>
    /\ UNCHANGED <<listeners, sigints>>

\* complete-multipart is answered and uploadMultipart returns.
CompleteReturn ==
    /\ cpc = "completing"
    /\ \E ok \in BOOLEAN :
        NextLarge(cur + 1,
            Append(results, IF ok THEN UploadResult(CurFile)
                            ELSE UploadError(CurFile, "failed")))
    /\ UNCHANGED <<cmd, isAborting, handler, besidesCli>>
    /\ UNCHANGED <<listeners, sigints>>

\* uploadFile (or uploadBlob) of small file i returns its outcome; the next
\* waiting file starts; after the last, the outcomes are pushed in item order
\* and the command concludes.
SmallDone(i) ==
    /\ cpc = "small"
    /\ i \in 1..Len(small)
    /\ small[i] = "active"
    /\ \E ok \in BOOLEAN :
        LET order == SmallFiles(cmd.files)
            sm == Refill([small EXCEPT ![i] = IF ok THEN "success" ELSE "failure"],
                         order, cmd.connections)
            out == [k \in 1..Len(order) |->
                       IF sm[order[k]] = "success" THEN UploadResult(order[k])
                       ELSE UploadError(order[k], "failed")]
        IN /\ small' = sm
           /\ IF \A k \in 1..Len(order) : sm[order[k]] \in {"success", "failure"}
              THEN Conclude(results \o out)
              ELSE UNCHANGED <<cpc, results, exit>>
    /\ UNCHANGED <<cmd, cur, prompts, needPrompt, isAborting, handler, besidesCli>>
    /\ UNCHANGED <<listeners, sigints>>

\* SIGINT, the first.  Every setupAbortHandler call added a listener and none
\* is ever removed; the listeners run one after the other, each up to its
\* first await.  The first sets isAborting and starts its timer; a second one
\* finds isAborting set: process.exit(1).
BatchSigint ==
    /\ cpc \notin {"init", "exited"}
    /\ handler
    /\ ~isAborting
    /\ isAborting' = TRUE
    /\ sigints' = sigints + 1
    /\ IF listeners >= 2
       THEN Exit(1, "sigint")
       ELSE UNCHANGED <<cpc, exit>>
    /\ UNCHANGED <<cmd, cur, small, results, prompts, needPrompt, listeners,
                   handler, besidesCli>>

\* The handler's timer fires: process.exit(0).
BatchTimerExit ==
    /\ cpc # "exited"
    /\ isAborting
    /\ Exit(0, "timer")
    /\ UNCHANGED <<cmd, cur, small, results, prompts, needPrompt, isAborting,
                   handler, besidesCli>>
    /\ UNCHANGED <<listeners, sigints>>

\* SIGINT again: process.exit(1).
BatchSigintAgain ==
    /\ cpc # "exited"
    /\ isAborting
    /\ Exit(1, "sigint")
    /\ sigints' = sigints + 1
    /\ UNCHANGED <<cmd, cur, small, results, prompts, needPrompt, isAborting,
                   handler, listeners, besidesCli>>

\* What the bucket holds under the prefix, and the filter flags, of a prune
\* command.
Listings == UNION {[1..n -> {HalfDayMs, 2 * DayMs, 3 * DayMs}] : n \in 0..2}
ListingOf(ages) ==
    [i \in 1..Len(ages) |-> [key |-> i, lastModified |-> Now - ages[i]]]
PruneFlags ==
    [olderThan : {Undefined, Given(0), Given(2)},
     keepLast : {Undefined, Given(1)},
     minAge : {DefaultMinAge, [n |-> 0, unit |-> ""]}]

KeysOf(list) == [i \in 1..Len(list) |-> list[i].key]

\* Mutant: --dry-run is not looked at.
DryRunNever(c) == FALSE

\* `if (flags.dryRun)`
DryRun(c) == c.dryRun

\* prune() up to the confirmation: the filter flags are required, loadConfig,
\* listAllObjects, filterObjectsForPrune, --dry-run (summary, and the list
\* unless --quiet), and the list and the confirmation prompt unless --ci or
\* --quiet.
PruneStart ==
    /\ cpc = "init"
    /\ cmd.name = "prune"
    /\ LET del == filterObjectsForPrune(objects, options)
       IN IF ~options.olderThan.set /\ ~options.keepLast.set
          THEN Exit(1, "usage")
               /\ UNCHANGED <<prompts, needPrompt, toDelete, printed>>
          ELSE IF ~cmd.config
          THEN Exit(2, "config") /\ needPrompt' = TRUE
               /\ UNCHANGED <<prompts, toDelete, printed>>
          ELSE IF objects = << >>
          THEN Exit(0, "nothing")
               /\ UNCHANGED <<prompts, needPrompt, toDelete, printed>>
          ELSE /\ toDelete' = [called |-> TRUE, list |-> del]
               /\ IF del = << >>
                  THEN Exit(0, "nothing")
                       /\ UNCHANGED <<prompts, needPrompt, printed>>
                  ELSE IF DryRun(cmd)
                  THEN /\ Exit(0, "dryRun")
                       /\ printed' = [summary |-> "Would delete",
                                      count |-> Len(del),
                                      keys |-> IF cmd.quiet THEN << >>
                                               ELSE KeysOf(del)]
                       /\ UNCHANGED <<prompts, needPrompt>>
                  ELSE /\ needPrompt' = ~cmd.quiet
                       /\ UNCHANGED exit
                       /\ IF ~cmd.ci /\ ~cmd.quiet
                          THEN /\ cpc' = "confirm"
                               /\ prompts' = prompts + 1
                               /\ printed' = [summary |-> "none", count |-> 0,
                                              keys |-> KeysOf(del)]
                          ELSE /\ cpc' = "deleting"
                               /\ UNCHANGED <<prompts, printed>>
    /\ UNCHANGED <<cmd, cur, small, results, isAborting, handler, objects,
                   options, deleteReqs, engineVars, storeVars, restVars>>
    /\ UNCHANGED <<listeners, sigints>>

\* The delete confirmation is answered.
PruneConfirm ==
    /\ cpc = "confirm"
    /\ \E a \in {"yes", "no", "cancel"} :
        IF a = "yes" THEN cpc' = "deleting" /\ UNCHANGED exit
        ELSE Exit(0, "cancel")
    /\ UNCHANGED <<cmd, cur, small, results, prompts, needPrompt, isAborting,
                   handler, besidesCli>>
    /\ UNCHANGED <<listeners, sigints>>

\* deleteObjects has returned: client.delete was called for every key of
\* toDelete, in order, whether or not a call failed.
PruneDelete ==
    /\ cpc = "deleting"
    /\ deleteReqs' = deleteReqs \o KeysOf(toDelete.list)
    /\ IF cmd.deleteErrors
       THEN Exit(4, "errors") /\ UNCHANGED printed
       ELSE /\ Exit(0, "deleted")
            /\ printed' = [summary |-> "Deleted", count |-> Len(toDelete.list),
                           keys |-> printed.keys]
    /\ UNCHANGED <<cmd, cur, small, results, prompts, needPrompt, isAborting,
                   handler, objects, options, toDelete, engineVars, storeVars,
                   restVars>>
    /\ UNCHANGED <<listeners, sigints>>

CliInit ==
    /\ TransferIdle
    /\ StoreIdle
    /\ RestIdle
    /\ cmd \in Commands
    /\ IF cmd.name = "prune"
       THEN /\ \E ages \in Listings : objects = ListingOf(ages)
            /\ options \in PruneFlags
            /\ toDelete = NotCalled
            /\ deleteReqs = << >>
            /\ printed = NotPrinted
       ELSE PruneIdle
    /\ cpc = "init"
    /\ cur = 0
    /\ small = << >>
    /\ results = << >>
    /\ prompts = 0
    /\ needPrompt = FALSE
    /\ exit = NoExit
    /\ listeners = 0
    /\ sigints = 0

CliNext ==
    \/ UploadStart
    \/ PromptAnswer
    \/ TransferReject
    \/ TransferEarlyFail
    \/ TransferSchedule
    \/ PartsThrow
    \/ PartsReturn
    \/ CompleteReturn
    \/ \E i \in 1..MaxFiles : SmallDone(i)
    \/ BatchSigint
    \/ BatchTimerExit
    \/ BatchSigintAgain
    \/ PruneStart
    \/ PruneConfirm
    \/ PruneDelete

CliSpec == CliInit /\ [][CliNext]_vars

\* ------------------------------------------------- the state store by itself

MaxAdds == 4
MaxEtags == 2

\* The sidecar's text as the sequence of JSON tokens in it: a key with its
\* number or its etag string, and the brackets.
Tok(k, n, e) == [k |-> k, n |-> n, e |-> e]

ScalarKeys ==
    <<"version", "uploadId", "fileSize", "fileModified", "chunkSize", "totalParts">>

RECURSIVE PartTokens(_)
PartTokens(cp) ==
    IF cp = << >> THEN << >>
    ELSE <<Tok("partNumber", Head(cp).partNumber, NoEtag),
           Tok("etag", 0, Head(cp).etag)>> \o PartTokens(Tail(cp))

\* JSON.stringify(state, null, 2): the fields in the order of the object, then
\* the completedParts array.
Stringify(st) ==
    <<Tok("{", 0, NoEtag)>>
    \o [i \in 1..Len(ScalarKeys) |-> Tok(ScalarKeys[i], st[ScalarKeys[i]], NoEtag)]
    \o <<Tok("[", 0, NoEtag)>>
    \o PartTokens(st.completedParts)
    \o <<Tok("]", 0, NoEtag), Tok("}", 0, NoEtag)>>

\* The text is one complete JSON document of the sidecar's form.
WellFormed(text) ==
    LET n == Len(text)
    IN /\ n >= 4
       /\ text[1].k = "{"
       /\ text[n].k = "}"
       /\ text[n - 1].k = "]"
       /\ \E b \in 2..(n - 2) :
            /\ text[b].k = "["
            /\ \A i \in 2..(b - 1) :
                 \E j \in 1..Len(ScalarKeys) : text[i].k = ScalarKeys[j]
            /\ (n - 2 - b) % 2 = 0
            /\ \A i \in (b + 1)..(n - 2) :
                 text[i].k = IF (i - b) % 2 = 1 THEN "partNumber" ELSE "etag"

\* JSON.parse: a SyntaxError (ok = FALSE) unless the text is a complete
\* document; a key that occurs twice has its last value, a key that does not
\* occur is undefined (0 here).
JSONparse(text) ==
    IF ~WellFormed(text) THEN [ok |-> FALSE, val |-> NullState]
    ELSE LET n == Len(text)
             b == CHOOSE i \in 2..(n - 2) : text[i].k = "["
             at(k) == {i \in 2..(b - 1) : text[i].k = k}
             num(k) == IF at(k) = {} THEN 0
                       ELSE text[CHOOSE i \in at(k) : \A j \in at(k) : j <= i].n
         IN [ok |-> TRUE,
             val |-> [version |-> num("version"), uploadId |-> num("uploadId"),
                      fileSize |-> num("fileSize"),
                      fileModified |-> num("fileModified"),
                      chunkSize |-> num("chunkSize"),
                      totalParts |-> num("totalParts"),
                      completedParts |->
                          [j \in 1..((n - 2 - b) \div 2) |->
                              [partNumber |-> text[b + 2 * j - 1].n,
                               etag |-> text[b + 2 * j].e]]]]

\* Mutant: the version of the document is not looked at.
VersionOkAlways(v) == TRUE

\* `state.version !== 1` returns null.
VersionOk(v) == v = 1

\* JSON.parse is called inside loadState's try block.
ParseInsideTry == TRUE

\* loadState on the sidecar sc: null when the file does not exist, when
\* JSON.parse throws, and when the version is not 1.
loadStateFile(sc) ==
    IF sc.how = "missing" THEN [threw |-> FALSE, val |-> NullState]
    ELSE LET r == JSONparse(sc.text)
         IN IF ~r.ok THEN [threw |-> ~ParseInsideTry, val |-> NullState]
            ELSE IF ~VersionOk(r.val.version)
            THEN [threw |-> FALSE, val |-> NullState]
            ELSE [threw |-> FALSE, val |-> r.val]

\* What the state store leaves alone.
besidesStore == <<envVars, procVars, histVars, cliVars, pruneVars, restVars>>

\* addCompletedPart(filePath, state, part), awaited: the upsert, then the
\* whole state is written to the sidecar.
AddCompletedPart(pn, u) ==
    /\ adds < MaxAdds
    /\ adds' = adds + 1
    /\ mem' = [mem EXCEPT !.completedParts = Upsert(@, Part(u, pn))]
    /\ sidecar' = [how |-> "saved", text |-> Stringify(mem')]
    /\ lastEtag' = [lastEtag EXCEPT ![pn] = Etag(u, pn)]
    /\ ret' = NoReturn
    /\ UNCHANGED besidesStore

\* saveState(filePath, state), awaited.
SaveState ==
    /\ sidecar' = [how |-> "saved", text |-> Stringify(mem)]
    /\ ret' = NoReturn
    /\ UNCHANGED <<mem, lastEtag, adds, besidesStore>>

\* loadState(filePath)
LoadState ==
    /\ ret' = [from |-> sidecar.how, threw |-> loadStateFile(sidecar).threw,
               val |-> loadStateFile(sidecar).val, mem |-> mem]
    /\ UNCHANGED <<mem, sidecar, lastEtag, adds, besidesStore>>

\* deleteState(filePath), awaited: the file is cleared, then unlinked.
DeleteState ==
    /\ sidecar.how # "missing"
    /\ sidecar' = MissingFile
    /\ ret' = NoReturn
    /\ UNCHANGED <<mem, lastEtag, adds, besidesStore>>

\* Outside the program the sidecar is cut short: an empty file, or a document
\* that stops part way.
Truncate ==
    /\ sidecar.how = "saved"
    /\ \E k \in 0..(Len(sidecar.text) - 1) :
        sidecar' = [how |-> IF k = 0 THEN "empty" ELSE "torn",
                    text |-> SubSeq(sidecar.text, 1, k)]
    /\ ret' = NoReturn
    /\ UNCHANGED <<mem, lastEtag, adds, besidesStore>>

\* Outside the program the sidecar is replaced by one of another version.
OtherVersion ==
    /\ sidecar.how = "saved"
    /\ \E v \in {0, 2} :
        sidecar' = [how |-> "version",
                    text |-> [sidecar.text EXCEPT ![2] = Tok("version", v, NoEtag)]]
    /\ ret' = NoReturn
    /\ UNCHANGED <<mem, lastEtag, adds, besidesStore>>

StoreInit ==
    /\ TransferIdle
    /\ CliIdle
    /\ PruneIdle
    /\ RestIdle
    /\ \E f \in FileSizes, c \in ChunkSizes :
        mem = createInitialState(1, f, 0, c)
    /\ sidecar = MissingFile
    /\ ret = NoReturn
    /\ lastEtag = [p \in PartNumbers |-> NoEtag]
    /\ adds = 0

StoreNext ==
    \/ \E pn \in PartNumbers, u \in 1..MaxEtags : AddCompletedPart(pn, u)
    \/ SaveState
    \/ LoadState
    \/ DeleteState
    \/ Truncate
    \/ OtherVersion

StoreSpec == StoreInit /\ [][StoreNext]_vars

\* ------------------------------------------------- chunking by itself

MaxSize == 12
MaxChunk == 5

\* What chunking leaves alone.
besidesChunk == <<envVars, procVars, histVars, cliVars, storeVars, pruneVars,
                  listVars, cleanVars, signVars, speedVars, poolVars>>

\* One turn of the for-loop over the parts: start and end of the next part.
NextRange ==
    /\ Len(ranges) < chunking.totalParts
    /\ ranges' = Append(ranges, ByteRange(chunking, Len(ranges) + 1))
    /\ UNCHANGED <<chunking, besidesChunk>>

ChunkInit ==
    /\ TransferIdle
    /\ CliIdle
    /\ StoreIdle
    /\ PruneIdle
    /\ ListIdle
    /\ CleanIdle
    /\ SignIdle
    /\ SpeedIdle
    /\ PoolIdle
    /\ \E f \in 0..MaxSize, c \in 1..MaxChunk :
        chunking = createInitialState(1, f, 0, c)
    /\ ranges = << >>

ChunkNext == NextRange

ChunkSpec == ChunkInit /\ [][ChunkNext]_vars

\* ------------------------------------------- the speed estimator by itself

MaxClock == 6
MaxUpdates == 3
MaxCredit == 2

\* The window of the samples, and one step of the clock, in ms.
WindowMs == 30000
TickMs == WindowMs \div 3

\* `state.recentSamples.filter((s) => s.time >= cutoff)`
RecentOnly(samples, cutoff) == SelectSeq(samples, LAMBDA x : x.time >= cutoff)

\* updateProgress, the bytes and the samples of it.
AddSample(e, bytes, now) ==
    LET total == e.bytesUploaded + bytes
    IN [e EXCEPT !.bytesUploaded = total,
                 !.recentSamples =
                     RecentOnly(Append(@, [bytes |-> total, time |-> now]),
                                now - WindowMs)]

\* calculateSpeed: the samples as they are when two or more are there and
\* they span time; else the lifetime average; else 0.  The speed is
\* bytes per ms / 1000.
calculateSpeed(e, now) ==
    LET n == Len(e.recentSamples)
        oldest == e.recentSamples[1]
        newest == e.recentSamples[n]
    IN IF n >= 2 /\ newest.time - oldest.time > 0
       THEN [called |-> TRUE, from |-> "samples",
             bytes |-> newest.bytes - oldest.bytes,
             ms |-> newest.time - oldest.time]
       ELSE IF now - e.startTime > 0 /\ e.bytesUploaded > 0
       THEN [called |-> TRUE, from |-> "lifetime",
             bytes |-> e.bytesUploaded, ms |-> now - e.startTime]
       ELSE [called |-> TRUE, from |-> "zero", bytes |-> 0, ms |-> 0]

\* What the estimator leaves alone.
besidesSpeed == <<envVars, procVars, histVars, cliVars, storeVars, pruneVars,
                  listVars, cleanVars, signVars, chunkVars, poolVars>>

\* Time passes.
Tick ==
    /\ clock < MaxClock * TickMs
    /\ clock' = clock + TickMs
    /\ speed' = NotQueried
    /\ UNCHANGED <<est, credited, besidesSpeed>>

\* uploadPartsInParallel on a resume, before its first part: bytesUploaded is
\* set to the bytes of the parts completed earlier; no sample is added.
PreCreditBytes ==
    /\ credited = 0
    /\ est.bytesUploaded = 0
    /\ \E c \in 1..MaxCredit :
        /\ est' = [est EXCEPT !.bytesUploaded = c]
        /\ credited' = c
    /\ speed' = NotQueried
    /\ UNCHANGED <<clock, besidesSpeed>>

\* updateProgress(state, 1): a part of one byte has completed.
UpdateProgress ==
    /\ est.bytesUploaded - credited < MaxUpdates
    /\ est' = AddSample(est, 1, clock)
    /\ speed' = NotQueried
    /\ UNCHANGED <<clock, credited, besidesSpeed>>

\* renderProgressBar: the speed is asked for.
QuerySpeed ==
    /\ ~speed.called
    /\ speed' = calculateSpeed(est, clock)
    /\ UNCHANGED <<clock, est, credited, besidesSpeed>>

\* createProgressState: no bytes, one sample of 0 bytes at the start.
SpeedInit ==
    /\ TransferIdle
    /\ CliIdle
    /\ StoreIdle
    /\ PruneIdle
    /\ ListIdle
    /\ CleanIdle
    /\ SignIdle
    /\ ChunkIdle
    /\ PoolIdle
    /\ clock = 0
    /\ est = [bytesUploaded |-> 0, startTime |-> 0,
              recentSamples |-> <<[bytes |-> 0, time |-> 0]>>]
    /\ speed = NotQueried
    /\ credited = 0

SpeedNext ==
    \/ Tick
    \/ PreCreditBytes
    \/ UpdateProgress
    \/ QuerySpeed

SpeedSpec == SpeedInit /\ [][SpeedNext]_vars

\* ---------------------------------------------- runWithConcurrency by itself

MaxItems == 4
MaxLimit == 3

\* A slot of `new Array(items.length)` nothing was written to.
EmptySlot == [item |-> 0, v |-> "empty"]

\* What fn(items[i], i) resolves to: an outcome for item i.
FnResult(i, v) == [item |-> i, v |-> v]

\* Mutant: the loop goes on until more than `limit` promises are executing.
PoolAtLimitAbove(size, limit) == size > limit

\* `if (executing.size >= limit)`
PoolAtLimit(size, limit) == size >= limit

\* Mutant: the result goes to the first slot that is still empty.
StoreResultFirstFree(res, index, result) ==
    LET free == {j \in 1..Len(res) : res[j] = EmptySlot}
    IN [res EXCEPT ![CHOOSE j \in free : \A k \in free : j <= k] = result]

\* `results[index] = result`
StoreResult(res, index, result) == [res EXCEPT ![index] = result]

\* The for-loop from item k, run until it next awaits: each turn calls fn
\* (which runs to its first await) and adds the promise; at the limit the loop
\* awaits Promise.race; after the last item comes Promise.all, which resolves
\* at once when nothing is executing.
RECURSIVE PoolLoop(_, _, _, _, _)
PoolLoop(ex, out, k, n, limit) ==
    IF k > n
    THEN [executing |-> ex, out |-> out, next |-> k,
          wait |-> IF ex = {} THEN "returned" ELSE "all"]
    ELSE LET ex1 == ex \cup {k}
             out1 == [out EXCEPT ![k] = "running"]
         IN IF PoolAtLimit(Cardinality(ex1), limit)
            THEN [executing |-> ex1, out |-> out1, next |-> k + 1, wait |-> "race"]
            ELSE PoolLoop(ex1, out1, k + 1, n, limit)

\* What runWithConcurrency leaves alone.
besidesPool == <<envVars, procVars, histVars, cliVars, storeVars, pruneVars,
                 listVars, cleanVars, signVars, speedVars, chunkVars>>

\* fn(items[i], i) fulfils: the then-callback writes the result and deletes
\* the promise.  A loop waiting in Promise.race goes on; Promise.all resolves
\* when this was the last promise executing.
FnFulfils(i) ==
    /\ i \in 1..rwc.n
    /\ fnOut[i] = "running"
    /\ \E v \in {"success", "failure"} :
        LET res == StoreResult(rwc.results, i, FnResult(i, v))
            ex == rwc.executing \ {i}
            out == [fnOut EXCEPT ![i] = v]
            lr == PoolLoop(ex, out, rwc.next, rwc.n, rwc.limit)
        IN IF rwc.wait = "race"
           THEN /\ rwc' = [rwc EXCEPT !.results = res, !.executing = lr.executing,
                                      !.next = lr.next, !.wait = lr.wait,
                                      !.order = Append(@, i)]
                /\ fnOut' = lr.out
           ELSE /\ rwc' = [rwc EXCEPT !.results = res, !.executing = ex,
                                      !.wait = IF rwc.wait = "all" /\ ex = {}
                                               THEN "returned" ELSE @,
                                      !.order = Append(@, i)]
                /\ fnOut' = out
    /\ UNCHANGED besidesPool

\* fn(items[i], i) rejects: the then-callback does not run, the promise stays
\* in `executing`, and the Promise.race or Promise.all being awaited rejects,
\* and runWithConcurrency with it.
FnRejects(i) ==
    /\ i \in 1..rwc.n
    /\ fnOut[i] = "running"
    /\ fnOut' = [fnOut EXCEPT ![i] = "rejected"]
    /\ rwc' = [rwc EXCEPT !.wait = IF @ \in {"race", "all"} THEN "rejected" ELSE @,
                          !.order = Append(@, i)]
    /\ UNCHANGED besidesPool

\* runWithConcurrency(items, limit, fn) is called and runs to its first await.
PoolInit ==
    /\ TransferIdle
    /\ CliIdle
    /\ StoreIdle
    /\ PruneIdle
    /\ ListIdle
    /\ CleanIdle
    /\ SignIdle
    /\ SpeedIdle
    /\ ChunkIdle
    /\ \E n \in 0..MaxItems, limit \in 1..MaxLimit :
        LET lr == PoolLoop({}, [i \in 1..n |-> "idle"], 1, n, limit)
        IN /\ rwc = [n |-> n, limit |-> limit, next |-> lr.next,
                     executing |-> lr.executing,
                     results |-> [i \in 1..n |-> EmptySlot],
                     wait |-> lr.wait, order |-> << >>]
           /\ fnOut = lr.out

PoolNext ==
    \/ \E i \in 1..MaxItems : FnFulfils(i)
    \/ \E i \in 1..MaxItems : FnRejects(i)

PoolSpec == PoolInit /\ [][PoolNext]_vars

\* ------------------------------------------------- the signer by itself

MaxHeaders == 3
MaxParams == 2

\* Header names in lower case, in lexical order; a name is its place in this
\* list and whether it is spelled in lower case or with capitals ("Host").
LowerNames ==
    <<"content-type", "host", "range", "x-amz-content-sha256", "x-amz-date">>
HeaderNames == [name : 1..Len(LowerNames), cased : {"lower", "Capital"}]

\* Query parameter keys in lexical order; a key is its place in this list.
QueryKeys == <<"partNumber", "uploadId", "uploads">>

\* k.toLowerCase()
toLowerCase(h) == [h EXCEPT !.cased = "lower"]

\* The keys of `{...headers, host, "x-amz-date", "x-amz-content-sha256"}`: an
\* object has one property per spelling.
ObjectKeys(hdrs) ==
    hdrs \cup {[name |-> 2, cased |-> "lower"], [name |-> 5, cased |-> "lower"],
               [name |-> 4, cased |-> "lower"]}

\* `Object.keys(signedHeaders).map((k) => k.toLowerCase()).sort()`: one entry
\* per key, the lower-cased names in lexical order.
RECURSIVE SortedLower(_, _)
SortedLower(keys, i) ==
    IF i > Len(LowerNames) THEN << >>
    ELSE [j \in 1..Cardinality({k \in keys : toLowerCase(k).name = i}) |-> i]
         \o SortedLower(keys, i + 1)

\* Values a parameter may have in the URL.
QueryValues == {"1", "a b"}

\* `parsedUrl.searchParams.toString()`: the parameters in the order of the URL,
\* form-encoded (a space becomes "+").
SearchParamsToString(q) ==
    [i \in 1..Len(q) |->
        [key |-> q[i].key, value |-> IF q[i].value = "a b" THEN "a+b" ELSE q[i].value]]

\* signRequest, its signed-header list and canonical query string.
signRequest(hdrs, q) ==
    [called |-> TRUE,
     signedHeadersStr |-> SortedLower(ObjectKeys(hdrs), 1),
     canonicalQuerystring |-> SearchParamsToString(q)]

\* What the signer leaves alone.
besidesSign == <<envVars, procVars, histVars, cliVars, storeVars, pruneVars,
                 listVars, cleanVars, speedVars, chunkVars, poolVars>>

SignRequest ==
    /\ ~signed.called
    /\ signed' = signRequest(headers, query)
    /\ UNCHANGED <<headers, query, besidesSign>>

SignInit ==
    /\ TransferIdle
    /\ CliIdle
    /\ StoreIdle
    /\ PruneIdle
    /\ ListIdle
    /\ CleanIdle
    /\ SpeedIdle
    /\ ChunkIdle
    /\ PoolIdle
    /\ headers \in {h \in SUBSET HeaderNames : Cardinality(h) <= MaxHeaders}
    /\ query \in UNION {[1..n -> [key : 1..Len(QueryKeys), value : QueryValues]] :
                          n \in 0..MaxParams}
    /\ signed = NotSigned

SignNext == SignRequest

SignSpec == SignInit /\ [][SignNext]_vars

\* ----------------------------------------------------- cleanup by itself

\* What the server may answer to the abort request: 204, 404 (no such
\* upload), 500; 0 stands for a fetch that rejects.
AbortAnswers(id) == (IF id \in uploads THEN {204} ELSE {404}) \cup {500, 0}

\* `response.ok`
Ok2xx(status) == status \in 200..299

\* Mutant: every answer that is not 2xx is warned about.
AbortWarnsNot2xx(status) == status # 0 /\ ~Ok2xx(status)

\* `!response.ok && response.status !== 404`: the warning; nothing is thrown,
\* a rejected fetch is caught.
AbortWarns(status) == status # 0 /\ ~Ok2xx(status) /\ status # 404

\* `catch { // Ignore abort errors }` around the fetch.
CatchIgnores == TRUE

\* What cleanup leaves alone.
besidesClean == <<envVars, procVars, histVars, cliVars, pruneVars, listVars,
                  signVars, speedVars, chunkVars, poolVars>>

\* cleanupExistingUpload up to its request: loadState, and with a state the
\* abort request for state.uploadId is sent.
CleanupStart ==
    /\ clean.pc = "idle"
    /\ LET st == loadStateFile(sidecar).val
       IN clean' = IF st = NullState
                   THEN [clean EXCEPT !.pc = "done"]
                   ELSE [clean EXCEPT !.pc = "abort", !.id = st.uploadId]
    /\ UNCHANGED <<uploads, storeVars, besidesClean>>

\* The abort request is answered (or fails); deleteState starts: the file
\* exists and is cleared.
CleanupAbortAnswer ==
    /\ clean.pc = "abort"
    /\ \E a \in AbortAnswers(clean.id) :
        LET threw == a = 0 /\ ~CatchIgnores
        IN /\ clean' = [clean EXCEPT !.pc = IF threw THEN "done" ELSE "unlink",
                                     !.status = a, !.warned = AbortWarns(a),
                                     !.threw = threw]
           /\ uploads' = IF a = 204 THEN uploads \ {clean.id} ELSE uploads
           /\ sidecar' = IF threw THEN sidecar
                         ELSE [how |-> "empty", text |-> << >>]
    /\ UNCHANGED <<mem, ret, lastEtag, adds, besidesClean>>

\* fs.unlink; cleanupExistingUpload returns.
CleanupUnlink ==
    /\ clean.pc = "unlink"
    /\ sidecar' = MissingFile
    /\ clean' = [clean EXCEPT !.pc = "done"]
    /\ UNCHANGED <<uploads, mem, ret, lastEtag, adds, besidesClean>>

\* The loadState that follows.
LoadAfterCleanup ==
    /\ clean.pc = "done"
    /\ ret = NoReturn
    /\ LoadState

\* Sidecars an earlier invocation can have left: none, a whole document, one
\* cut short, an empty file.
CleanupInit ==
    /\ TransferIdle
    /\ CliIdle
    /\ PruneIdle
    /\ ListIdle
    /\ SignIdle
    /\ SpeedIdle
    /\ ChunkIdle
    /\ PoolIdle
    /\ \E u \in 1..MaxEtags, f \in FileSizes, c \in ChunkSizes, n \in 0..1 :
        /\ mem = [createInitialState(u, f, 0, c) EXCEPT
                     !.completedParts = IF n = 0 THEN << >> ELSE <<Part(u, 1)>>]
        /\ uploads \in {{}, {u}, {3 - u}}
    /\ \E k \in 0..Len(Stringify(mem)) :
        sidecar \in {MissingFile,
                     [how |-> IF k = 0 THEN "empty"
                              ELSE IF k = Len(Stringify(mem)) THEN "saved"
                              ELSE "torn",
                      text |-> SubSeq(Stringify(mem), 1, k)]}
    /\ ret = NoReturn
    /\ lastEtag = [p \in PartNumbers |-> NoEtag]
    /\ adds = 0
    /\ clean = CleanNotCalled

CleanupNext ==
    \/ CleanupStart
    \/ CleanupAbortAnswer
    \/ CleanupUnlink
    \/ LoadAfterCleanup

CleanupSpec == CleanupInit /\ [][CleanupNext]_vars

\* ----------------------------------------------------------------- claims

\* The part numbers for which an upload-part request was sent in this run.
Requested == {p \in PartNumbers : reqs[p] > 0}

\* The complete-multipart requests sent by this invocation.
CallsOfRun == {i \in 1..Len(completeCalls) : completeCalls[i].run = run}

\* C2.  Resume correctness: with k of n parts recorded as completed on entry,
\* the scheduler sends an upload-part request only for part numbers in 1..n
\* that are not recorded as completed, at most one per part number, and by the
\* time it has returned normally (the complete-multipart request is out) it
\* has sent one for each of the n-k missing part numbers.
C2_ResumeUploadsExactlyPending ==
    (pc # "none" /\ handler) =>
        /\ \A p \in PartNumbers : reqs[p] <= 1
        /\ Requested \subseteq (1..state.totalParts) \ startCompleted
        /\ pc = "complete" =>
               Requested = (1..state.totalParts) \ startCompleted

\* A resumed transfer with some parts completed before and some missing has
\* uploaded the missing ones and sent complete-multipart.
C2_Witness ==
    /\ pc = "complete"
    /\ path = "resume"
    /\ startCompleted # {}
    /\ Requested # {}

\* C3.  Bounded concurrency: at any time at most `connections` part uploads
\* are started and not settled, whatever the order of completions and failures.
C3_BoundedConcurrency ==
    pc # "none" => Cardinality(Executing(task)) <= opts.connections

\* The limit is reached while parts are still waiting for a slot and one
\* upload has already settled.
C3_Witness ==
    /\ pc = "race"
    /\ Cardinality(Executing(task)) = opts.connections
    /\ nextIdx <= Len(pendingParts)
    /\ \E p \in PartNumbers : task[p] = "settled"

\* C6.  Finalize precondition: every complete-multipart request was sent while
\* no cancellation was pending, and its part list is exactly the parts
\* 1..totalParts, once each, ascending, each with the etag the store returned
\* for that part of that upload.
C6_FinalizePrecondition ==
    \A i \in 1..Len(completeCalls) :
        LET c == completeCalls[i]
        IN /\ ~c.aborting
           /\ c.parts = [p \in 1..c.n |-> Part(c.uploadId, p)]

\* A resumed transfer whose parts completed out of order sends
\* complete-multipart.
C6_Witness ==
    /\ pc = "complete"
    /\ path = "resume"
    /\ allParts # SortParts(allParts)
    /\ CallsOfRun # {}

\* C7.  Failure policy: once a part upload has failed while isAborting was not
\* set, uploadMultipart has returned a failure outcome carrying the error of
\* that (first) failure, and this invocation sends no complete-multipart
\* request, whatever the other part uploads do before or after.
C7_FailurePolicy ==
    (pc # "none" /\ firstFail # NoError) =>
        /\ pc = "returned"
        /\ outcome = [status |-> "failure", error |-> firstFail]
        /\ CallsOfRun = {}

\* A part upload failed and another part of the same run was committed.
C7_Witness ==
    /\ firstFail # NoError
    /\ Numbers(allParts) \ startCompleted # {}
    /\ Executing(task) # {}

\* The etags recorded in the state this invocation loaded from the sidecar.
LoadedEtags ==
    {loaded.completedParts[i].etag : i \in 1..Len(loaded.completedParts)}

\* The etags a complete-multipart request refers to.
CallEtags(c) == {c.parts[i].etag : i \in 1..Len(c.parts)}

\* C8.  Stale remote upload: when list-parts shows no part while the loaded
\* state records at least one, the sidecar is gone before the new upload is
\* initiated; the transfer then runs under a new upload id with nothing
\* recorded as completed and the sidecar holding exactly that new state until
\* the first part is committed; by the time complete-multipart is sent every
\* part 1..totalParts was requested under the new id, and no etag of that
\* request comes from the discarded state.
C8_StaleRestart ==
    path = "stale" =>
        /\ pc = "initiate" => disk = AbsentFile
        /\ handler =>
            /\ state.uploadId # loaded.uploadId
            /\ startCompleted = {}
            /\ state.completedParts = << >> =>
                   disk = StateFile(createInitialState(state.uploadId,
                              file.size, file.mtime, opts.chunkSize))
        /\ \A i \in CallsOfRun :
            /\ Requested = 1..state.totalParts
            /\ completeCalls[i].uploadId # loaded.uploadId
            /\ CallEtags(completeCalls[i]) \cap LoadedEtags = {}

\* A stale upload was restarted and complete-multipart has been sent.
C8_Witness ==
    /\ path = "stale"
    /\ pc = "complete"
    /\ Len(loaded.completedParts) > 0
    /\ CallsOfRun # {}

\* C9.  File-changed invalidation: when the sidecar's size or mtime is not the
\* file's, the invocation never takes the resume check (list-parts, stale
\* delete); the transfer runs under a new upload id with nothing recorded as
\* completed (no part is skipped), the sidecar is overwritten with the new
\* state (empty completedParts, the current size and mtime), and the
\* complete-multipart request refers to no part of the old state.
C9_FileChangedFresh ==
    path = "changed" =>
        /\ pc \notin {"listParts", "staleClear", "staleUnlink"}
        /\ handler =>
            /\ state.uploadId # loaded.uploadId
            /\ state.fileSize = file.size
            /\ state.fileModified = file.mtime
            /\ startCompleted = {}
            /\ state.completedParts = << >> =>
                   disk = StateFile(createInitialState(state.uploadId,
                              file.size, file.mtime, opts.chunkSize))
        /\ \A i \in CallsOfRun :
            /\ Requested = 1..state.totalParts
            /\ completeCalls[i].uploadId # loaded.uploadId
            /\ CallEtags(completeCalls[i]) \cap LoadedEtags = {}

\* The file changed while a sidecar with completed parts existed, and the new
\* transfer has sent complete-multipart.
C9_Witness ==
    /\ path = "changed"
    /\ pc = "complete"
    /\ Len(loaded.completedParts) > 0
    /\ CallsOfRun # {}

\* C10.  Success ordering: a success outcome is returned only after the store
\* answered complete-multipart with success and with the sidecar deleted; and
\* in a run that is not on the stale path the running process never clears or
\* deletes the sidecar before that answer.
C10_SuccessOrdering ==
    /\ [](outcome.status = "success" => completed /\ disk = AbsentFile)
    /\ [][(pc # "none" /\ pc' # "none" /\ path' # "stale"
           /\ disk.kind = "state" /\ disk'.kind # "state") => completed]_vars

\* A resumed transfer has returned success.
C10_Witness ==
    /\ pc = "returned"
    /\ outcome.status = "success"
    /\ path = "resume"

\* The complete-multipart requests sent by this invocation and the one before.
CallsOfLastTwoRuns ==
    {i \in 1..Len(completeCalls) : completeCalls[i].run >= run - 1}

\* The previous invocation started fresh and was interrupted (SIGINT, or
\* killed) with fewer than all parts committed, and the file is as it was.
ResumedAfterInterrupt ==
    /\ pc # "none"
    /\ prev.partial
    /\ prev.how \in {"sigint", "crash"}
    /\ prev.file = file

WritesQuiet ==
    /\ pc \in {"race", "waitAll", "complete"}
    /\ \A p \in PartNumbers : task[p] # "writing"

\* C4.  No lost updates on the sidecar: once every addCompletedPart call made
\* so far has returned, the sidecar on disk lists every part those calls added.
C4_NoLostUpdates ==
    WritesQuiet => Numbers(allParts) \subseteq Numbers(loadState(disk).completedParts)

\* C5.  Durability boundary: after a crash, with the file unchanged, the state
\* the next invocation loads contains every part whose addCompletedPart had
\* returned before the crash, and unless the upload turns out stale no
\* upload-part request is sent for such a part.
C5_DurabilityBoundary ==
    (pc # "none" /\ prev.how = "crash" /\ prev.file = file) =>
        /\ prev.returned \subseteq Numbers(loaded.completedParts)
        /\ path # "stale" => prev.returned \cap Requested = {}

\* uploadMultipart has returned a failure that came from a part upload, from
\* list-parts or from complete-multipart.
FailedAfterPersist ==
    /\ pc = "returned"
    /\ outcome.status = "failure"
    /\ outcome.error.kind \in {"io", "response", "listParts", "complete"}

\* C11.  Failure preserves resumable state: when uploadMultipart returns a
\* failure from a part upload, from list-parts or from complete-multipart, the
\* sidecar exists, names the upload id of the transfer and lists every part
\* whose addCompletedPart had returned before the failure.
C11_FailurePreservesState ==
    FailedAfterPersist =>
        /\ loadState(disk) # NullState
        /\ loadState(disk).uploadId = state.uploadId
        /\ Numbers(allParts) \subseteq Numbers(loadState(disk).completedParts)

\* The part of C11 that does hold: the sidecar exists and names the upload id.
C11_SidecarKept ==
    FailedAfterPersist =>
        /\ loadState(disk) # NullState
        /\ loadState(disk).uploadId = state.uploadId

\* A step of the SIGINT handler: the first signal, or the process.exit that
\* ends the handler (after the timer, or at a second signal).
InterruptStep ==
    /\ handler
    /\ \/ ~isAborting /\ isAborting'
       \/ pc # "none" /\ pc' = "none" /\ prev'.how = "sigint"

\* C12.  Interrupt leaves remote and local state intact: no step of the SIGINT
\* handler changes the store (no abort-multipart request) or the sidecar (it
\* is neither deleted nor truncated), and an invocation that resumes after an
\* interrupt continues the upload id it loaded from the sidecar.
C12_InterruptKeepsState ==
    /\ [][InterruptStep => (remote' = remote /\ disk' = disk)]_vars
    /\ []((prev.how = "sigint" /\ path = "resume" /\ pc # "listParts")
            => state.uploadId = loaded.uploadId)

\* The part of C12 that does hold: the first signal touches neither the store
\* nor the sidecar, no handler step touches the store, and the exit leaves the
\* sidecar as it is when no write is in flight.
C12_HandlerFrame ==
    [][InterruptStep =>
        /\ remote' = remote
        /\ (~isAborting \/ ~WriteInFlight) => disk' = disk]_vars

\* uploadMultipart has returned the paused outcome.
Paused ==
    /\ pc = "returned"
    /\ outcome = Failure("interrupted", 0)

\* C13.  Grace period for in-flight parts: a part whose request was in flight
\* at the cancellation signal and whose 2xx answer arrived afterwards, within
\* the grace period, is listed in the sidecar by the time the paused outcome
\* is returned.
C13_GracePeriod ==
    Paused => late \subseteq Numbers(loadState(disk).completedParts)

\* What the wait before the paused outcome does give: every sidecar write that
\* was in flight has landed.
C13_WritesLanded ==
    Paused => \A p \in PartNumbers : task[p] # "writing"

\* C14.  Cancellation stops scheduling: while the cancellation flag is set no
\* part upload that had not been started is started and no upload-part request
\* is sent, whatever slots become free.
C14_CancellationStopsScheduling ==
    [][(isAborting /\ pc' # "none") =>
        /\ \A p \in PartNumbers : task[p] = "idle" => task'[p] = "idle"
        /\ reqs' = reqs]_vars

\* After the cancellation a slot is free (fewer promises are executing than
\* the limit, one having settled since) while a pending part has not been
\* started.
C14_Witness ==
    /\ isAborting
    /\ pc = "waitAll"
    /\ \E p \in PartNumbers : task[p] = "settled"
    /\ \E i \in 1..Len(pendingParts) : task[pendingParts[i]] = "idle"
    /\ Cardinality(Executing(task)) < opts.connections
    /\ Executing(task) # {}

\* upload has ended by its exit on the counts of the results.
Concluded ==
    /\ cpc = "exited"
    /\ exit.by = "results"

\* The results that are failures other than the paused outcome.
HardFailures ==
    {k \in 1..Len(results) :
        ~results[k].success /\ results[k].error # "Upload interrupted"}

\* C15.  Paused outcome is distinct: a transfer ended by cancellation is not
\* counted as a failed upload, so when upload exits with a failure code (1
\* or 4) on its counts, some file failed for a reason other than cancellation.
C15_PausedNotCounted ==
    (Concluded /\ exit.code \in {1, 4}) => HardFailures # {}

\* upload ran with a configuration and at least one valid file, and has ended.
UploadEnded ==
    /\ cpc = "exited"
    /\ cmd.name = "upload"
    /\ cmd.config
    /\ cmd.files # << >>

\* Every valid file has exactly one outcome, and the exit code is 0 iff no
\* file failed, 4 iff some succeeded and some failed, 1 iff all failed.
OutcomesAndCode ==
    /\ \A i \in 1..Len(cmd.files) :
        Cardinality({k \in 1..Len(results) : results[k].file = i}) = 1
    /\ exit.code = 0 <=> failCount(results) = 0
    /\ exit.code = 4 <=> (successCount(results) > 0 /\ failCount(results) > 0)
    /\ exit.code = 1 <=> (successCount(results) = 0 /\ failCount(results) > 0)

\* C16.  Batch isolation and exit code: when upload of one or more valid files
\* ends, every file has received exactly one outcome, whatever the outcomes of
\* the others, and the exit code is 0 iff no file failed, 4 iff at least one
\* succeeded and at least one failed, 1 iff every file failed.
C16_BatchIsolation ==
    UploadEnded => OutcomesAndCode

\* The part of C16 that does hold: the same, for a run that nobody cancelled
\* (no SIGINT and no cancelled prompt), which ends on the counts.
C16_NoCancel ==
    (UploadEnded /\ Concluded /\ ~isAborting) => OutcomesAndCode

\* C17.  CI mode never prompts and fails with code 3: with --ci, when the
\* command has reached a point where a prompt would be needed (a resumable
\* upload, the delete confirmation, a missing configuration), it has shown no
\* prompt and exits with code 3.
C17_CiExitsThree ==
    (cpc = "exited" /\ cmd.ci /\ needPrompt) => (prompts = 0 /\ exit.code = 3)

\* The part of C17 that does hold: with --ci no prompt is ever shown.
C17_CiNeverPrompts ==
    cmd.ci => prompts = 0

\* C18.  addCompletedPart is an idempotent upsert: after any sequence of calls
\* completedParts is strictly ascending by part number (so has at most one
\* entry per part number), holds for each part number added the etag of the
\* last call for it and nothing else, and adding any part a second time gives
\* the list that adding it once gives.
C18_IdempotentUpsert ==
    LET cp == mem.completedParts
    IN /\ \A i, j \in 1..Len(cp) : i < j => cp[i].partNumber < cp[j].partNumber
       /\ \A i \in 1..Len(cp) : cp[i].etag = lastEtag[cp[i].partNumber]
       /\ Numbers(cp) = {p \in PartNumbers : lastEtag[p] # NoEtag}
       /\ \A pn \in PartNumbers, u \in 1..MaxEtags :
            Upsert(Upsert(cp, Part(u, pn)), Part(u, pn)) = Upsert(cp, Part(u, pn))

\* More calls were made than there are entries (an entry was replaced), an
\* entry holds a second etag, and the list has more than one entry.
C18_Witness ==
    /\ adds > Len(mem.completedParts)
    /\ Len(mem.completedParts) >= 2
    /\ \E i \in 1..Len(mem.completedParts) : mem.completedParts[i].etag.uid = 2
    /\ \E i \in 1..Len(mem.completedParts) : mem.completedParts[i].etag.uid = 1

\* C19.  State store round trip: loadState never throws; called on the sidecar
\* as saveState wrote it, it returns a value equal to the state saved; called
\* on a missing sidecar, an empty one, one that is not a complete JSON
\* document, or one of a version other than 1, it returns null.
C19_RoundTrip ==
    /\ ~ret.threw
    /\ ret.from = "saved" => ret.val = ret.mem
    /\ ret.from \in {"missing", "empty", "torn", "version"} => ret.val = NullState

\* loadState has returned a saved state that has completed parts.
C19_Witness ==
    /\ ret.from = "saved"
    /\ Len(ret.val.completedParts) >= 2
    /\ ret.val = mem

\* Age of an object at the time of the call.
AgeOf(obj) == Now - obj.lastModified

\* Place of objects[i] among the newest: the objects newer than it, and the
\* ones exactly as new that the listing names before it, come first.
PlaceOf(i) ==
    1 + Cardinality({j \in 1..Len(objects) :
            \/ objects[j].lastModified > objects[i].lastModified
            \/ objects[j].lastModified = objects[i].lastModified /\ j < i})

\* The three criteria for objects[i].
Selected(i) ==
    /\ AgeOf(objects[i]) > parseAge(options.minAge)
    /\ options.keepLast.set => PlaceOf(i) > options.keepLast.n
    /\ options.olderThan.set => AgeOf(objects[i]) > options.olderThan.n * DayMs

ExampleAges == <<1, 2, 3, 11, 21>>

ExampleCall ==
    /\ toDelete.called
    /\ Len(objects) = 5
    /\ \A i \in 1..5 : AgeOf(objects[i]) = ExampleAges[i] * DayMs
    /\ options = [olderThan |-> Given(2), keepLast |-> Given(3),
                  minAge |-> [n |-> 0, unit |-> ""]]

\* C20: the result of filterObjectsForPrune holds an object iff its age is
\* strictly above minAge, it is not among the keepLast newest (when keepLast
\* is given) and its age is strictly above olderThan days (when olderThan is
\* given); each object is there once at most, newest first; ages 1, 2, 3, 11,
\* 21 days with keepLast 3, olderThan 2, minAge 0 give the 11- and the 21-day
\* object.
C20_RetentionConjunction ==
    toDelete.called =>
        LET r == toDelete.list
        IN /\ \A i \in 1..Len(objects) :
                Selected(i) <=> \E k \in 1..Len(r) : r[k] = objects[i]
           /\ \A k \in 1..Len(r) : \E i \in 1..Len(objects) : r[k] = objects[i]
           /\ \A k, l \in 1..Len(r) : k < l =>
                /\ r[k].lastModified >= r[l].lastModified
                /\ r[k].key # r[l].key
           /\ ExampleCall => r = <<objects[4], objects[5]>>

C20_Witness ==
    /\ ExampleCall
    /\ Len(toDelete.list) = 2
    /\ AgeOf(toDelete.list[1]) = 11 * DayMs
    /\ AgeOf(toDelete.list[2]) = 21 * DayMs

\* The duration a --min-age argument stands for: days, hours or minutes, days
\* when no unit is written; an argument of another form stands for none.
FloorMs(a) ==
    CASE a.unit \in {"", "d"} -> a.n * DayMs
      [] a.unit = "h" -> a.n * (DayMs \div 24)
      [] a.unit = "m" -> a.n * (DayMs \div 1440)
      [] OTHER -> 0

\* C21: whatever olderThan and keepLast are, no object whose age is at or
\* below the min-age duration is in the result of filterObjectsForPrune; with
\* the default of one day no object modified twelve hours ago is in it.
C21_MinAgeFloor ==
    toDelete.called =>
        /\ \A k \in 1..Len(toDelete.list) :
             AgeOf(toDelete.list[k]) > FloorMs(options.minAge)
        /\ options.minAge = DefaultMinAge =>
             \A k \in 1..Len(toDelete.list) : AgeOf(toDelete.list[k]) # HalfDayMs

\* The default floor at work: nothing else protects the twelve-hour object,
\* older ones are selected, it is not.
C21_Witness ==
    /\ toDelete.called
    /\ options = [olderThan |-> Given(0), keepLast |-> Undefined,
                  minAge |-> DefaultMinAge]
    /\ \E i \in 1..Len(objects) : AgeOf(objects[i]) = HalfDayMs
    /\ \E i \in 1..Len(objects) : AgeOf(objects[i]) = DayMs
    /\ Len(toDelete.list) >= 2

\* The keys of the objects that meet all the criteria.
SelectedKeys == {objects[i].key : i \in {j \in 1..Len(objects) : Selected(j)}}
Range(seq) == {seq[i] : i \in 1..Len(seq)}

\* C22: with --dry-run prune calls client.delete for no key, and what it
\* reports (the count, and the keys unless --quiet) is the set that is handed
\* to deleteObjects without --dry-run.
C22_DryRunDeletesNothing ==
    cmd.name = "prune" =>
        /\ cmd.dryRun => deleteReqs = << >>
        /\ exit.by = "dryRun" =>
             /\ printed.summary = "Would delete"
             /\ printed.count = Cardinality(SelectedKeys)
             /\ ~cmd.quiet => Range(printed.keys) = SelectedKeys
        /\ exit.by \in {"deleted", "errors"} =>
             /\ Range(deleteReqs) = SelectedKeys
             /\ Len(deleteReqs) = Cardinality(SelectedKeys)

C22_Witness ==
    /\ cmd.name = "prune"
    /\ exit.by = "dryRun"
    /\ ~cmd.quiet
    /\ Len(printed.keys) = 1
    /\ Len(objects) = 2
    /\ deleteReqs = << >>

\* C23: against a server that holds a finite set of keys and answers in key
\* order with at most a page of them, listAllObjects returns, and what it
\* returns is every key once, as one sequence.
C23_ListingComplete ==
    /\ <>(~hasMore)
    /\ [](~hasMore =>
            /\ Range(allObjects) = bucket
            /\ Len(allObjects) = Cardinality(bucket))
    /\ [](listCalls <= Cardinality(bucket) + 1)

\* A listing of five keys that took three requests or more.
C23_Witness ==
    /\ ~hasMore
    /\ Len(allObjects) = 5
    /\ listCalls >= 3

\* C24: in every ProgressState of a transfer, fresh or resumed, the bytes
\* counted are at most the total, the parts counted are the parts in allParts,
\* and the percentage shown lies in 0..100.
C24_ProgressBound ==
    pc # "none" =>
        /\ progress.bytesUploaded <= progress.totalBytes
        /\ progress.bytesUploaded >= 0
        /\ Percent(progress) \in 0..100
        /\ progress.totalBytes = file.size
        /\ progress.completedParts = Len(allParts)

\* A resumed transfer with parts credited from the sidecar that has counted
\* every byte, the last part shorter than a chunk.
C24_Witness ==
    /\ path = "resume"
    /\ startCompleted # {}
    /\ state.fileSize % state.chunkSize # 0
    /\ state.totalParts \in startCompleted
    /\ progress.bytesUploaded = progress.totalBytes
    /\ Percent(progress) = 100

\* C25: cleanupExistingUpload, when loadState finds a state, sends the abort
\* for the upload id the sidecar records while the sidecar is still there,
\* then deletes the sidecar, so that the loadState that follows returns null;
\* a 404 answer neither warns nor throws, and no answer makes it throw.
C25_ExplicitCleanup ==
    /\ ~clean.threw
    /\ clean.pc = "abort" =>
         /\ sidecar.how = "saved"
         /\ clean.id = JSONparse(sidecar.text).val.uploadId
    /\ clean.pc = "done" /\ clean.id # 0 =>
         /\ sidecar = MissingFile
         /\ clean.id = mem.uploadId
         /\ clean.id \notin uploads \/ clean.status \in {500, 0}
         /\ clean.status = 404 => ~clean.warned
         /\ ret.from # "none" => ret.from = "missing" /\ ret.val = NullState
    /\ clean.pc = "done" /\ ret.from # "none" => ret.val = NullState /\ ~ret.threw

\* The abort was answered 404, the sidecar is gone and loadState said so.
C25_Witness ==
    /\ clean.pc = "done"
    /\ clean.status = 404
    /\ clean.id = 2
    /\ ret.from = "missing"

\* C26: the signed-header list of signRequest is lower-cased, sorted, without
\* duplicates, and is the union of the input header names with host,
\* x-amz-date and x-amz-content-sha256, also when an input name differs from
\* an injected one by case only.
C26_SignedHeaderList ==
    signed.called =>
        LET l == signed.signedHeadersStr
        IN /\ \A i, j \in 1..Len(l) : i < j => l[i] < l[j]
           /\ Range(l) = {h.name : h \in headers} \cup {2, 4, 5}

\* The list is sorted with repetitions allowed and names the right headers:
\* what the code does keep.
C26_SortedAndComplete ==
    signed.called =>
        LET l == signed.signedHeadersStr
        IN /\ \A i, j \in 1..Len(l) : i < j => l[i] <= l[j]
           /\ Range(l) = {h.name : h \in headers} \cup {2, 4, 5}

\* C30: the canonical query string lists the parameters sorted by key,
\* whatever their order in the URL.
C30_CanonicalQuerySorted ==
    signed.called =>
        \A i, j \in 1..Len(signed.canonicalQuerystring) :
            i < j => signed.canonicalQuerystring[i].key
                        <= signed.canonicalQuerystring[j].key

\* The canonical query string has the parameters of the URL, in URL order.
C30_QueryKept ==
    signed.called =>
        /\ Len(signed.canonicalQuerystring) = Len(query)
        /\ \A i \in 1..Len(query) : signed.canonicalQuerystring[i].key = query[i].key

\* Parts that hold a worker slot by what they are doing: reading, sending, or
\* with their sidecar write still in flight.
Busy(t, w) ==
    {p \in PartNumbers : t[p] \in {"reading", "fetching"} \/ w[p] # NullState}

\* C27: the sidecar write of a part has landed before its slot counts as free:
\* a part that left the running set with success has no write in flight; when
\* a part is started, the parts still busy -- those whose write has not landed
\* included -- fit the limit; and the wait for the remaining parts ends only
\* when every write has landed.
C27_CommitBeforeSlotReuse ==
    /\ [](\A p \in PartNumbers :
            task[p] = "settled" /\ p \in Numbers(allParts) => wr[p] = NullState)
    /\ [](pc = "complete" => \A p \in PartNumbers : wr[p] = NullState)
    /\ [][\A q \in PartNumbers :
            task[q] = "idle" /\ task'[q] # "idle" =>
                Cardinality(Busy(task', wr')) <= opts.connections]_vars

\* One connection: a part of this invocation is in the sidecar and the part
\* that waited for its slot has been started.
C27_Witness ==
    /\ opts.connections = 1
    /\ \E p \in PartNumbers :
        /\ task[p] = "settled"
        /\ p \in Numbers(allParts) \ startCompleted
        /\ p \in Numbers(loadState(disk).completedParts)
    /\ \E q \in PartNumbers : task[q] = "reading"

\* Bytes of the file that lie in a range.
BytesOf(r) == {b \in 0..(MaxSize + MaxChunk) : r.start <= b /\ b < r.end}

\* C28: totalParts is ceil(fileSize / chunkSize); the range of part p is
\* [(p-1)*chunkSize, min(p*chunkSize, fileSize)); no range is empty, no two
\* overlap, and together the ranges of parts 1..totalParts are [0, fileSize).
C28_ChunkingPartitions ==
    chunking # NullState =>
        LET f == chunking.fileSize
            c == chunking.chunkSize
            n == chunking.totalParts
        IN /\ n * c >= f /\ (n - 1) * c < f /\ n >= 0
           /\ \A p \in 1..Len(ranges) :
                /\ ranges[p].start = (p - 1) * c
                /\ ranges[p].end = (IF p * c < f THEN p * c ELSE f)
                /\ ranges[p].start < ranges[p].end
           /\ \A p, q \in 1..Len(ranges) :
                p # q => BytesOf(ranges[p]) \cap BytesOf(ranges[q]) = {}
           /\ Len(ranges) = n =>
                UNION {BytesOf(ranges[p]) : p \in 1..n} = 0..(f - 1)

\* Every part of a file whose last part is short has its range.
C28_Witness ==
    /\ chunking # NullState
    /\ chunking.fileSize % chunking.chunkSize # 0
    /\ chunking.totalParts >= 3
    /\ Len(ranges) = chunking.totalParts

\* Samples that lie inside the window that ends now.
InWindow == {i \in 1..Len(est.recentSamples) :
                est.recentSamples[i].time >= clock - WindowMs}

\* C29: calculateSpeed reports the speed between the oldest and the newest
\* sample only when two or more samples lie inside the 30 seconds before the
\* query; when the window has passed without a new sample it reports the
\* lifetime average bytesUploaded / (now - startTime), not 0.
C29_SpeedFallback ==
    speed.called =>
        /\ speed.from = "samples" => Cardinality(InWindow) >= 2
        /\ InWindow = {} /\ est.bytesUploaded > 0 =>
             /\ speed.from = "lifetime"
             /\ speed.bytes = est.bytesUploaded
             /\ speed.ms = clock - est.startTime

\* What the code keeps: when the speed is asked for right after an update, the
\* samples it uses lie inside the window, and a single sample left gives the
\* lifetime average.
C29_FreshAfterUpdate ==
    /\ speed.called /\ est.bytesUploaded > 0
       /\ est.recentSamples[Len(est.recentSamples)].time = clock =>
         /\ speed.from = "samples" =>
              Cardinality(InWindow) = Len(est.recentSamples) /\ Len(est.recentSamples) >= 2
         /\ Len(est.recentSamples) = 1 /\ clock > est.startTime =>
              speed.from = "lifetime"

\* C31: in a batch, one SIGINT during any multipart transfer leads to the
\* pause (isAborting set, the timer, exit code 0); the exit with code 1 by
\* the SIGINT listener happens only when a second SIGINT has been received.
C31_OneInterruptGraceful ==
    exit.by = "sigint" => sigints >= 2

\* What the code keeps: with the listener of the first multipart file alone,
\* one SIGINT never exits with code 1.
C31_FirstTransferGraceful ==
    exit.by = "sigint" /\ sigints = 1 => listeners >= 2

\* C32: on a resume the part count and the byte range of every part come from
\* the chunkSize and totalParts of the sidecar, not from the options of this
\* invocation; the sidecar of one upload id never changes them, so a part
\* number has the same byte range in every session of the upload id.
C32_ResumeUsesPersistedChunking ==
    /\ [](path = "resume" /\ handler =>
            /\ Range(pendingParts) \cup startCompleted = 1..loaded.totalParts
            /\ \A p \in PartNumbers : reqs[p] > 0 =>
                 /\ sentRange[p].start = (p - 1) * loaded.chunkSize
                 /\ sentRange[p].end = (IF p * loaded.chunkSize < loaded.fileSize
                                        THEN p * loaded.chunkSize
                                        ELSE loaded.fileSize))
    /\ [][loadState(disk).uploadId # 0
            /\ loadState(disk').uploadId = loadState(disk).uploadId =>
                /\ loadState(disk').chunkSize = loadState(disk).chunkSize
                /\ loadState(disk').totalParts = loadState(disk).totalParts
                /\ loadState(disk').fileSize = loadState(disk).fileSize]_vars

\* A resumed session whose preset gives another chunk size and another part
\* count than the sidecar's has sent a part.
C32_Witness ==
    /\ path = "resume"
    /\ opts.chunkSize # loaded.chunkSize
    /\ CeilDiv(file.size, opts.chunkSize) # loaded.totalParts
    /\ \E p \in PartNumbers : reqs[p] > 0 /\ p > 1

\* C33: when on a resume list-parts answered 404 for the recorded upload id
\* (the store no longer has it), no upload-part and no complete-multipart
\* request is sent with that id afterwards, also when the sidecar records no
\* completed part.
C33_ExpiredIdNeverReused ==
    path = "resume" /\ handler /\ ~completed /\ ~remote[state.uploadId].open =>
        /\ \A p \in PartNumbers : reqs[p] = 0
        /\ \A i \in 1..Len(completeCalls) :
             completeCalls[i].run = run =>
                 completeCalls[i].uploadId # state.uploadId

\* What the code keeps: with a completed part in the sidecar the expired id
\* is given up and no request is sent with it.
C33_WithPartsRestarted ==
    path = "stale" /\ handler =>
        /\ state.uploadId # loaded.uploadId
        /\ ~remote[loaded.uploadId].open

\* C34: on a resumed transfer the bytes pre-credited for parts of earlier
\* sessions are never counted as transferred inside the sampling window: the
\* speed taken from the samples covers at most the bytes of this session.
C34_SpeedCountsThisSession ==
    speed.called /\ speed.from = "samples" =>
        speed.bytes <= est.bytesUploaded - credited

\* What the code keeps: without pre-credited bytes the speed from the samples
\* covers bytes of this session only.
C34_FreshSessionOnly ==
    speed.called /\ speed.from = "samples" /\ credited = 0 =>
        speed.bytes <= est.bytesUploaded

\* C35: for a --min-age argument parseAge cannot parse, the filter does not
\* run with a minimum age of 0: no object of the default one day of age or
\* younger is in the result.
C35_UnparseableKeepsFloor ==
    toDelete.called /\ options.minAge.unit \notin {"", "d", "h", "m"} =>
        \A k \in 1..Len(toDelete.list) :
            AgeOf(toDelete.list[k]) > FloorMs(DefaultMinAge)

\* What the code keeps: an argument parseAge can parse is the floor.
C35_ParseableIsFloor ==
    toDelete.called /\ options.minAge.unit \in {"", "d", "h", "m"} =>
        \A k \in 1..Len(toDelete.list) :
            AgeOf(toDelete.list[k]) > parseAge(options.minAge)

\* C36: uploadMultipart always resolves to an outcome and never rejects, so
\* an error in one large file cannot end the loop over the files: when the
\* command ends other than by a signal or a cancelled prompt, every file of
\* the batch has its outcome in the results.
C36_UploadMultipartTotal ==
    /\ exit.by # "rejected"
    /\ cpc = "exited" /\ cmd.name = "upload"
       /\ exit.by \notin {"config", "nofiles", "cancel", "timer", "sigint"} =>
         Len(results) = Len(cmd.files)

\* What the code keeps: failures inside the try block (initiate, list-parts,
\* a part, complete-multipart) become outcomes, and the loop goes on.
C36_FailuresInsideTry ==
    cpc = "exited" /\ exit.by = "results" =>
        /\ Len(results) = Len(cmd.files)
        /\ \A i \in 1..Len(cmd.files) : \E k \in 1..Len(results) : results[k].file = i

\* C37: whatever the items, the limit and the order in which the tasks
\* complete, runWithConcurrency resolves only after every task has finished,
\* and results[i] is then the result of fn(items[i], i) for every i.
C37_KeepsPositions ==
    rwc.wait = "returned" =>
        /\ Len(rwc.results) = rwc.n
        /\ \A i \in 1..rwc.n :
             /\ fnOut[i] \in {"success", "failure"}
             /\ rwc.results[i] = FnResult(i, fnOut[i])

\* Three items under limit 2 have completed out of item order.
C37_Witness ==
    /\ rwc.wait = "returned"
    /\ rwc.n = 3
    /\ rwc.limit = 2
    /\ rwc.order = <<2, 3, 1>>

\* C38: for every limit >= 1, at no time are more than `limit` calls of fn
\* started and not yet settled.
C38_PoolBound ==
    Cardinality({i \in 1..rwc.n : fnOut[i] = "running"}) <= rwc.limit

\* The limit is reached again after a task completed and the loop went on.
C38_Witness ==
    /\ rwc.limit = 2
    /\ rwc.n = 4
    /\ Len(rwc.order) >= 1
    /\ Cardinality({i \in 1..rwc.n : fnOut[i] = "running"}) = 2

\* C39: when the upload id of the sidecar is superseded by a fresh initiation
\* because the file changed, an abort-multipart request is sent for the
\* superseded id: once the new upload is initiated the store no longer holds
\* the old one open.
C39_SupersededAborted ==
    path = "changed" /\ state # NullState => ~remote[loaded.uploadId].open

\* What the code keeps: the changed file is uploaded under a new upload id.
C39_FreshIdOnChange ==
    path = "changed" /\ state # NullState =>
        /\ state.uploadId # loaded.uploadId
        /\ state.fileSize = file.size
        /\ state.fileModified = file.mtime

====
